---- MODULE Spec2Model ----
(***************************************************************************)
(* Panel-regression scripts of thesis-models: the panel indexer, the lag   *)
(* builder, the subset selectors and the batch loops of Model A, Model B,  *)
(* the Hausman appendix and controls_summary.                              *)
(*                                                                         *)
(* A frame (pandas DataFrame) is a sequence of rows; a row is a record.    *)
(* The field rid is the row's identity (its line of the source table), so  *)
(* that two rows with equal values stay two rows.  A missing value (NaN)   *)
(* is the number 0; present values are positive.                           *)
(***************************************************************************)
EXTENDS Integers, Sequences, FiniteSets, TLC

VARIABLES panel, out, pc, results, written, cur

vars == <<panel, out, pc, results, written, cur>>

NaN == 0

(* ------------------------------ bounds --------------------------------- *)
MaxRows == 4
MaxFirmRows == 11
MaxCols == 2
VifRows == 3

(* ------------------------- program constants --------------------------- *)
COVID_FROM == 2020
COVID_TO == 2021
NONCOVID_FROM == 2022
PRE_COVID_TO == 2019
OUTER_FROM == 2008
OUTER_TO == 2024
MIN_ENTITY_ROWS == 2
HAUSMAN_MIN_YEARS == 3
MIN_PANEL_ROWS == 10

Firms == {1, 2}
Scores == {NaN, 1, 2}

(* ------------------------------ frames --------------------------------- *)
RECURSIVE FilterIdx(_, _, _)
(* the rows of f whose position is in keep, in f's order (boolean-mask .loc) *)
FilterIdx(f, keep, i) ==
    IF i > Len(f) THEN <<>>
    ELSE (IF i \in keep THEN <<f[i]>> ELSE <<>>) \o FilterIdx(f, keep, i + 1)

Mask(f, keep) == FilterIdx(f, keep, 1)

Rids(f) == {f[i].rid : i \in 1..Len(f)}

Entities(f) == {f[i].firm : i \in 1..Len(f)}

Times(f) == {f[i].year : i \in 1..Len(f)} \ {NaN}

EntityCount(f, e) == Cardinality({i \in 1..Len(f) : f[i].firm = e})

(* sort key of the time level: a missing year sorts last *)
YearKey(y) == IF y = NaN THEN 9999 ELSE y

KeyLeq(a, b) ==
    \/ a.firm < b.firm
    \/ a.firm = b.firm /\ YearKey(a.year) <= YearKey(b.year)

IsSorted(f) == \A i \in 1..(Len(f) - 1) : KeyLeq(f[i], f[i + 1])

(* ---------------------------- lag builder ------------------------------ *)
(* position of row i inside its entity group, counted from 0 *)
GroupPos(f, i) == Cardinality({j \in 1..(i - 1) : f[j].firm = f[i].firm})

(* defect: Series.shift without the groupby, by row position in the whole frame *)
GroupShiftUngrouped(f, c, L) ==
    [i \in 1..Len(f) |-> IF i - L < 1 THEN NaN ELSE f[i - L][c]]

(* defect: shift(lag + 1), one row too far *)
GroupShiftOffByOne(f, c, L) ==
    [i \in 1..Len(f) |->
        IF GroupPos(f, i) < L + 1 THEN NaN
        ELSE f[CHOOSE j \in 1..i :
                  /\ f[j].firm = f[i].firm
                  /\ GroupPos(f, j) = GroupPos(f, i) - (L + 1)][c]]

(* groupby(entity)[c].shift(L): the value L rows earlier in the same group *)
GroupShift(f, c, L) ==
    [i \in 1..Len(f) |->
        IF GroupPos(f, i) < L THEN NaN
        ELSE f[CHOOSE j \in 1..i :
                  /\ f[j].firm = f[i].firm
                  /\ GroupPos(f, j) = GroupPos(f, i) - L][c]]

Column(f, c) == [i \in 1..Len(f) |-> f[i][c]]

(* the frame with column c replaced by the values col *)
WithColumn(f, c, col) == [i \in 1..Len(f) |-> [f[i] EXCEPT ![c] = col[i]]]

(* the frame with a new column c holding the values col *)
AddColumn(f, c, col) == [i \in 1..Len(f) |-> f[i] @@ (c :> col[i])]

(* model_a_panel_fe.fit_one: X[ESG] is overwritten in a copy, only if lag *)
LagModelA(block, lag) ==
    IF lag # 0
    THEN WithColumn(block, "esg", GroupShift(block, "esg", lag))
    ELSE block

(* model_b_panel_fe.fit_one: the same lag on E, S and G, only if lag *)
LagModelB(block, lag) ==
    IF lag # 0
    THEN [i \in 1..Len(block) |->
            [block[i] EXCEPT !["env"] = GroupShift(block, "env", lag)[i],
                             !["soc"] = GroupShift(block, "soc", lag)[i],
                             !["gov"] = GroupShift(block, "gov", lag)[i]]]
    ELSE block

(* hausman_appendix_A1.build_design: df["ESG_lag"] on a copy, shift always *)
LagHausman(df_idx, lag) ==
    AddColumn(df_idx, "esg_lag", GroupShift(df_idx, "esg", lag))

(* controls_summary.run_block: df_lag[f"{ESG}_lag{lag}"] on a copy *)
LagControls(df_idxed, lag) ==
    AddColumn(df_idxed, "esg_lag", GroupShift(df_idxed, "esg", lag))

(* vif_diagnostics main loop: d[f"{esg}_lag"] = d.groupby(firm)[esg].shift(lag) *)
LagVIF(dsub, lag) ==
    AddColumn(dsub, "esg_lag", GroupShift(dsub, "esg", lag))

LAGS == {0, 1, 2, 3}
CONTROLS_LAGS == {0, 1, 2}

(* --------------------------- subset selector --------------------------- *)
(* defect: the window's last year compared with < instead of <= *)
CovidABStrict(df) ==
    Mask(df, {i \in 1..Len(df) :
                df[i].year # NaN /\ df[i].year >= COVID_FROM /\ df[i].year < COVID_TO})

(* model_a/model_b: boolean masks on the year level of the index *)
CovidAB(df) ==
    Mask(df, {i \in 1..Len(df) :
                df[i].year # NaN /\ df[i].year >= COVID_FROM /\ df[i].year <= COVID_TO})

NonCovidAB(df) ==
    Mask(df, {i \in 1..Len(df) :
                df[i].year # NaN
                /\ (df[i].year < COVID_FROM \/ df[i].year >= NONCOVID_FROM)})

Between(y, lo, hi) == y # NaN /\ lo <= y /\ y <= hi

(* defect: the COVID window of controls_summary opened a year early *)
CovidControlsWide(df) ==
    Mask(df, {i \in 1..Len(df) : Between(df[i].year, PRE_COVID_TO, COVID_TO)})

(* controls_summary.main: between(2020,2021); between(2008,2019)|between(2022,2024) *)
CovidControls(df) ==
    Mask(df, {i \in 1..Len(df) : Between(df[i].year, COVID_FROM, COVID_TO)})

NonCovidControls(df) ==
    Mask(df, {i \in 1..Len(df) :
                \/ Between(df[i].year, OUTER_FROM, PRE_COVID_TO)
                \/ Between(df[i].year, NONCOVID_FROM, OUTER_TO)})

(* sample_descriptives: np.where(between(2020,2021), COVID, Non-COVID) *)
CovidDescriptives(df) ==
    Mask(df, {i \in 1..Len(df) : Between(df[i].year, COVID_FROM, COVID_TO)})

NonCovidDescriptives(df) ==
    Mask(df, {i \in 1..Len(df) : ~Between(df[i].year, COVID_FROM, COVID_TO)})

(* ---------------------------- panel indexer ---------------------------- *)
(* drop_singletons: keep the entities counted at least twice, all their rows *)
drop_singletons(frame) ==
    Mask(frame, {i \in 1..Len(frame) :
                   EntityCount(frame, frame[i].firm) >= MIN_ENTITY_ROWS})

(* defect: the estimation threshold (2) used in place of the Hausman one (3) *)
HausmanFirmFilterMin2(df) ==
    Mask(df, {i \in 1..Len(df) :
                EntityCount(df, df[i].firm) >= MIN_ENTITY_ROWS})

(* hausman_appendix_A1: ny = df.groupby(level=0).size(); keep ny >= 3 *)
HausmanFirmFilter(df) ==
    Mask(df, {i \in 1..Len(df) :
                EntityCount(df, df[i].firm) >= HAUSMAN_MIN_YEARS})

(* ------------------------- input panels (bounded) ---------------------- *)
(* a row of the indexed table: identifiers, sector label, ESG composite,  *)
(* the three pillar scores, the two controls and the two outcomes.  In    *)
(* Model A and Model B the field debt is the derived Debt_ratio column.   *)
MkRow(rid, firm, year, sector, esg, emp, debt, roa, niat) ==
    [rid |-> rid, firm |-> firm, year |-> year, sector |-> sector,
     esg |-> esg, env |-> esg, soc |-> esg, gov |-> esg,
     emp |-> emp, debt |-> debt, roa |-> roa, niat |-> niat]

KeyLt(a, b) ==
    \/ a.firm < b.firm
    \/ a.firm = b.firm /\ YearKey(a.year) < YearKey(b.year)

HotelsLabel == <<"H", "o", "t", "e", "l", "s">>
FoodLabel == <<"F", "o", "o", "d">>

(* the frames of at most n cells in (firm, year) order; with unique, no   *)
(* (firm, year) pair occurs twice                                         *)
RECURSIVE SortedCells(_, _, _)
SortedCells(cells, n, unique) ==
    IF n = 0 THEN {<<>>}
    ELSE LET prev == SortedCells(cells, n - 1, unique)
             last == {s \in prev : Len(s) = n - 1}
         IN  prev \cup
             {t \in {Append(s, c) : s \in last, c \in cells} :
                 \/ n = 1
                 \/ IF unique THEN KeyLt(t[n - 1], t[n])
                              ELSE KeyLeq(t[n - 1], t[n])}

LagYears == {2018, 2019, 2020, 2022}
SplitYears == {NaN, 2007, 2008, 2019, 2020, 2021, 2022, 2024, 2025}

(* panels for the lag builder and the indexer: scores vary, years have a gap *)
LagCells == [firm : Firms, year : LagYears, esg : Scores]

(* panels with repeated firm-year rows *)
DupCells == [firm : Firms, year : {2019}, esg : Scores]

(* panels for the subset selector: one firm, years on every window boundary *)
SplitCells == [firm : {1}, year : SplitYears, esg : {1}]

Indexed(s) ==
    [i \in 1..Len(s) |->
        MkRow(i, s[i].firm, s[i].year, HotelsLabel, s[i].esg, 1, 1, 1, 1)]

ComponentPanels ==
    {Indexed(s) : s \in SortedCells(LagCells, MaxRows, TRUE)
                        \cup SortedCells(DupCells, MaxRows, FALSE)
                        \cup SortedCells(SplitCells, MaxRows, FALSE)}

(* ------------------ specification of the components -------------------- *)
Idle == [op |-> "none"]

(* control position: the script, the statement, the subset and the index *)
(* of the (outcome, lag) pair in the nested loops                        *)
At(script, at, sub, i) == [script |-> script, at |-> at, s |-> sub, i |-> i]

Init ==
    /\ panel \in ComponentPanels
    /\ out = Idle
    /\ pc = At("components", "apply", 0, 0)
    /\ results = <<>>
    /\ written = <<>>
    /\ cur = Idle

(* each component is applied once to the freshly indexed panel *)
Component ==
    /\ pc.script = "components"
    /\ out = Idle
    /\ UNCHANGED <<panel, pc, results, written, cur>>

ApplyLagModelA ==
    /\ Component
    /\ \E lag \in LAGS :
        out' = [op |-> "lag", who |-> "model_a", lag |-> lag,
                frame |-> LagModelA(panel, lag)]

ApplyLagModelB ==
    /\ Component
    /\ \E lag \in LAGS :
        out' = [op |-> "lag", who |-> "model_b", lag |-> lag,
                frame |-> LagModelB(panel, lag)]

ApplyLagHausman ==
    /\ Component
    /\ \E lag \in LAGS :
        out' = [op |-> "lag", who |-> "hausman", lag |-> lag,
                frame |-> LagHausman(panel, lag)]

ApplyLagControls ==
    /\ Component
    /\ \E lag \in CONTROLS_LAGS :
        out' = [op |-> "lag", who |-> "controls", lag |-> lag,
                frame |-> LagControls(panel, lag)]

ApplyLagVIF ==
    /\ Component
    /\ \E lag \in LAGS :
        out' = [op |-> "lag", who |-> "vif", lag |-> lag,
                frame |-> LagVIF(panel, lag)]

ApplySplitAB ==
    /\ Component
    /\ out' = [op |-> "split", who |-> "model_ab",
            covid |-> CovidAB(panel), noncovid |-> NonCovidAB(panel)]

ApplySplitControls ==
    /\ Component
    /\ out' = [op |-> "split", who |-> "controls",
            covid |-> CovidControls(panel), noncovid |-> NonCovidControls(panel)]

ApplySplitDescriptives ==
    /\ Component
    /\ out' = [op |-> "split", who |-> "descriptives",
            covid |-> CovidDescriptives(panel),
            noncovid |-> NonCovidDescriptives(panel)]

ApplyDropSingletons ==
    /\ Component
    /\ out' = [op |-> "filter", who |-> "drop_singletons",
            frame |-> drop_singletons(panel)]

ApplyHausmanFirmFilter ==
    /\ Component
    /\ out' = [op |-> "filter", who |-> "hausman",
            frame |-> HausmanFirmFilter(panel)]

Next ==
    \/ ApplyLagModelA
    \/ ApplyLagModelB
    \/ ApplyLagHausman
    \/ ApplyLagControls
    \/ ApplyLagVIF
    \/ ApplySplitAB
    \/ ApplySplitControls
    \/ ApplySplitDescriptives
    \/ ApplyDropSingletons
    \/ ApplyHausmanFirmFilter

Spec == Init /\ [][Next]_vars

(* ======================== the estimation scripts ======================= *)
OUTCOMES == <<"roa", "niat">>
LAG_LIST == <<0, 1, 2, 3>>
NPairs == Len(OUTCOMES) * Len(LAG_LIST)

(* for oc in OUTCOMES: for lg in LAGS: the i-th pair, i counted from 0 *)
OutcomeAt(i) == OUTCOMES[(i \div Len(LAG_LIST)) + 1]
LagAt(i) == LAG_LIST[(i % Len(LAG_LIST)) + 1]

(* DataFrame.dropna(): the rows with every column of cols present *)
DropNa(f, cols) == Mask(f, {i \in 1..Len(f) : \A c \in cols : f[i][c] # NaN})

MinEntityCount(f) ==
    CHOOSE n \in 0..Len(f) :
        /\ \E e \in Entities(f) : EntityCount(f, e) = n
        /\ \A e \in Entities(f) : EntityCount(f, e) >= n

(* ------------------------------ estimator ------------------------------ *)
(* linearmodels is outside the repository; what the scripts depend on is  *)
(* whether the fit returns or raises.  The values of a design are known   *)
(* here only as present, so the outcome is a choice among those some data *)
(* of that shape produce: with fewer rows than regressors the constructor *)
(* always raises (exog not of full column rank, a ValueError); with too   *)
(* few degrees of freedom left after the entity and time effects every    *)
(* regressor set is absorbed (AbsorbingEffectError) unless drop_absorbed; *)
(* otherwise the fit returns, or raises on collinear data.                *)
RECURSIVE Linked(_, _)
(* the entities linked to those of S through shared time points *)
Linked(f, S) ==
    LET T == {f[i].year : i \in {j \in 1..Len(f) : f[j].firm \in S}}
        S2 == {f[i].firm : i \in {j \in 1..Len(f) : f[j].year \in T}}
    IN  IF S2 = S THEN S ELSE Linked(f, S2)

(* connected components of the entity-time graph of the design *)
Components(f) == {Linked(f, {e}) : e \in Entities(f)}

(* rows left after removing the entity and time effects *)
ResidualDof(f) ==
    Len(f) - Cardinality(Entities(f))
           - Cardinality({f[i].year : i \in 1..Len(f)})
           + Cardinality(Components(f))

PanelOLSOutcomes(data, k, drop_absorbed) ==
    IF Len(data) < k THEN {"ValueError"}
    ELSE IF ResidualDof(data) < k /\ ~drop_absorbed
         THEN {"ValueError", "AbsorbingEffectError"}
         ELSE {"ok", "ValueError", "AbsorbingEffectError"}

(* ------------------------------- Model A ------------------------------- *)
REGRESSORS_A == {"esg", "emp", "debt"}

(* fit_one up to the guard: lag, concat with y, dropna, drop_singletons *)
DesignA(block, outcome, lag) ==
    drop_singletons(DropNa(LagModelA(block, lag), {outcome} \cup REGRESSORS_A))

(* if data.empty or value_counts().min() < 2 *)
NoEstimablePanel(data) ==
    Len(data) = 0 \/ MinEntityCount(data) < MIN_ENTITY_ROWS

ResultRow(label, outcome, lag, n, status) ==
    [Subset |-> label, Outcome |-> outcome, Lag |-> lag, N |-> n,
     status |-> status]

(* one call of fit_one(block, outcome, lag, label) at position pc, going  *)
(* on to position next when it returns; an exception of the estimator is  *)
(* not caught anywhere in the script, which then ends in a traceback      *)
FitOneA(block, label, next) ==
    LET outcome == OutcomeAt(pc.i)
        lag == LagAt(pc.i)
        data == DesignA(block, outcome, lag)
    IN  IF NoEstimablePanel(data)
        THEN /\ results' = Append(results,
                    ResultRow(label, outcome, lag, 0, "no_estimable_panel"))
             /\ cur' = [op |-> "fit_one", label |-> label, outcome |-> outcome,
                        lag |-> lag, data |-> data, fitted |-> FALSE,
                        fit |-> "none"]
             /\ pc' = next
        ELSE \E r \in PanelOLSOutcomes(data, Cardinality(REGRESSORS_A), FALSE) :
             /\ cur' = [op |-> "fit_one", label |-> label, outcome |-> outcome,
                        lag |-> lag, data |-> data, fitted |-> TRUE, fit |-> r]
             /\ IF r = "ok"
                THEN /\ results' = Append(results,
                            ResultRow(label, outcome, lag, Len(data), "ok"))
                     /\ pc' = next
                ELSE /\ results' = results
                     /\ pc' = At(pc.script, "aborted", pc.s, pc.i)

(* "hotel" as a case-insensitive substring of the sector label; a label   *)
(* is its sequence of characters, and a missing label is the empty one    *)
Lower(ch) ==
    CASE ch = "H" -> "h" [] ch = "O" -> "o" [] ch = "T" -> "t"
      [] ch = "E" -> "e" [] ch = "L" -> "l" [] OTHER -> ch

HOTEL == <<"h", "o", "t", "e", "l">>

ContainsHotel(label) ==
    \E k \in 0..(Len(label) - Len(HOTEL)) :
        \A j \in 1..Len(HOTEL) : Lower(label[k + j]) = HOTEL[j]

HotelsA(df) == Mask(df, {i \in 1..Len(df) : ContainsHotel(df[i].sector)})

SUBSETS_A == <<"COVID", "Non-COVID">>

SubsetA(df, label) == IF label = "COVID" THEN CovidAB(df) ELSE NonCovidAB(df)

Running(script, at) == pc.script = script /\ pc.at = at

(* for oc in OUTCOMES: for lg in LAGS: results.append(fit_one(df, ...)) *)
A_FitFull ==
    /\ Running("model_a", "full")
    /\ FitOneA(panel, "Full Period",
               IF pc.i + 1 < NPairs THEN At("model_a", "full", 0, pc.i + 1)
               ELSE At("model_a", "subset", 1, 0))
    /\ UNCHANGED <<panel, out, written>>

(* for label, sub in (COVID, Non-COVID): the 8 fits of the subset *)
A_FitSubset ==
    /\ Running("model_a", "subset")
    /\ FitOneA(SubsetA(panel, SUBSETS_A[pc.s]), SUBSETS_A[pc.s],
               IF pc.i + 1 < NPairs THEN At("model_a", "subset", pc.s, pc.i + 1)
               ELSE At("model_a", "hotels", pc.s, 0))
    /\ UNCHANGED <<panel, out, written>>

(* the hotels block is indented into the body of the label loop *)
A_FitHotels ==
    /\ Running("model_a", "hotels")
    /\ FitOneA(HotelsA(panel), "Hotels Only",
               IF pc.i + 1 < NPairs THEN At("model_a", "hotels", pc.s, pc.i + 1)
               ELSE At("model_a", "write", pc.s, 0))
    /\ UNCHANGED <<panel, out, written>>

(* out = pd.DataFrame(results)[...]; out.to_csv(OUT_PATH), in the same body *)
A_Write ==
    /\ Running("model_a", "write")
    /\ written' = results
    /\ pc' = IF pc.s < Len(SUBSETS_A) THEN At("model_a", "subset", pc.s + 1, 0)
             ELSE At("model_a", "done", 0, 0)
    /\ UNCHANGED <<panel, out, results, cur>>

(* --------------------- input panels of the scripts --------------------- *)
ScriptYears == {2018, 2019, 2020, 2021, 2022}

(* what a row holds: the score (ESG and pillars) and the two outcomes;    *)
(* the controls are present                                               *)
Kinds == {"full", "noscore", "nooutcome", "neither"}

HasScore(kind) == kind \in {"full", "nooutcome"}
HasOutcome(kind) == kind \in {"full", "noscore"}

KindRow(rid, firm, year, sector, kind) ==
    MkRow(rid, firm, year, sector,
          IF HasScore(kind) THEN 1 ELSE NaN, 1, 1,
          IF HasOutcome(kind) THEN 1 ELSE NaN,
          IF HasOutcome(kind) THEN 1 ELSE NaN)

(* one firm, any pattern of missing scores and outcomes over the years *)
OneFirmCells == [firm : {1}, year : ScriptYears, kind : Kinds]

(* two firms, the first one a hotel, scores missing or not *)
TwoFirmCells == [firm : Firms, year : ScriptYears \ {2018},
                 kind : {"full", "noscore"}]

OneFirmPanels ==
    {[i \in 1..Len(s) |-> KindRow(i, s[i].firm, s[i].year, sec, s[i].kind)] :
        s \in SortedCells(OneFirmCells, MaxRows, TRUE),
        sec \in {HotelsLabel, FoodLabel}}

TwoFirmPanels ==
    {[i \in 1..Len(s) |->
        KindRow(i, s[i].firm, s[i].year,
                IF s[i].firm = 1 THEN HotelsLabel ELSE FoodLabel, s[i].kind)] :
        s \in SortedCells(TwoFirmCells, MaxRows, TRUE)}

BalancedYears == <<2019, 2020, 2021, 2022>>

(* a complete panel of nf firms over 2019..2022, large enough for a fit   *)
(* with nf - 1 regressors, one row of firm 1 possibly incomplete          *)
Balanced(nf, sec, year, kind) ==
    [i \in 1..(nf * Len(BalancedYears)) |->
        LET firm == ((i - 1) \div Len(BalancedYears)) + 1
            yr == BalancedYears[((i - 1) % Len(BalancedYears)) + 1]
        IN  KindRow(i, firm, yr, sec,
                    IF firm = 1 /\ yr = year THEN kind ELSE "full")]

BalancedPanels(nf) ==
    {Balanced(nf, sec, year, kind) :
        sec \in {HotelsLabel, FoodLabel},
        year \in {2019, 2021}, kind \in {"full", "noscore"}}

ScriptPanels(nf) == OneFirmPanels \cup TwoFirmPanels \cup BalancedPanels(nf)

(* ------------------------ Model A run as a script ---------------------- *)
InitA ==
    /\ panel \in ScriptPanels(Cardinality(REGRESSORS_A) + 1)
    /\ out = Idle
    /\ pc = At("model_a", "full", 0, 0)
    /\ results = <<>>
    /\ written = <<>>
    /\ cur = Idle

NextA ==
    \/ A_FitFull
    \/ A_FitSubset
    \/ A_FitHotels
    \/ A_Write

SpecA == InitA /\ [][NextA]_vars

(* ======================= properties of the components ================== *)
(* the lagged column and the column it is taken from, per script *)
LagTargets(who) ==
    CASE who = "model_a" -> {<<"esg", "esg">>}
      [] who = "model_b" -> {<<"env", "env">>, <<"soc", "soc">>, <<"gov", "gov">>}
      [] OTHER -> {<<"esg_lag", "esg">>}

(* first row of the entity of row i in a frame sorted by (entity, time) *)
FirstOfEntity(f, i) ==
    CHOOSE j \in 1..i :
        /\ f[j].firm = f[i].firm
        /\ \A k \in 1..(j - 1) : f[k].firm # f[i].firm

(* C1: for L >= 1 the lagged column at the i-th row of an entity is the   *)
(* source value at the entity's (i-L)-th row, missing for the entity's    *)
(* first L rows; it is taken by row position whatever the calendar gap    *)
(* and never from another entity.                                         *)
C1_LagByRowPosition ==
    (out.op = "lag" /\ out.lag >= 1) =>
        /\ Len(out.frame) = Len(panel)
        /\ \A p \in LagTargets(out.who) : \A i \in 1..Len(panel) :
              IF i - FirstOfEntity(panel, i) < out.lag
              THEN out.frame[i][p[1]] = NaN
              ELSE /\ panel[i - out.lag].firm = panel[i].firm
                   /\ out.frame[i][p[1]] = panel[i - out.lag][p[2]]

(* a lag-1 column over a year gap (2019 -> 2022) in the second entity *)
C1_Witness ==
    /\ out.op = "lag" /\ out.who = "hausman" /\ out.lag = 1
    /\ \E i \in 3..Len(panel) :
          /\ panel[1].firm = 1 /\ panel[1].esg = 1
          /\ panel[i].firm = 2 /\ panel[i - 1].firm = 2
          /\ panel[i - 1].year = 2019 /\ panel[i].year = 2022
          /\ panel[i - 1].esg = 2
          /\ out.frame[i].esg_lag = 2
          /\ out.frame[FirstOfEntity(panel, i)].esg_lag = NaN

(* C2: with L = 0 the lagged column equals the source column in every row *)
(* (a missing value stays missing), in every script that builds a lag.    *)
C2_LagZeroIdentity ==
    (out.op = "lag" /\ out.lag = 0) =>
        /\ Len(out.frame) = Len(panel)
        /\ \A p \in LagTargets(out.who) : \A i \in 1..Len(panel) :
              out.frame[i][p[1]] = panel[i][p[2]]

C2_Witness ==
    /\ out.op = "lag" /\ out.who = "vif" /\ out.lag = 0
    /\ Len(panel) >= 3
    /\ panel[1].esg = NaN /\ out.frame[1].esg_lag = NaN
    /\ panel[2].esg = 2 /\ out.frame[2].esg_lag = 2
    /\ panel[3].esg = 1 /\ out.frame[3].esg_lag = 1

InCovid(r) == r.rid \in Rids(out.covid)
InNonCovid(r) == r.rid \in Rids(out.noncovid)

(* C3 as stated: the COVID subset and the non-COVID subset partition the  *)
(* full panel: every row is in exactly one, and the counts add up.        *)
C3_ExactPartition ==
    out.op = "split" =>
        /\ \A i \in 1..Len(panel) : InCovid(panel[i]) # InNonCovid(panel[i])
        /\ Len(out.covid) + Len(out.noncovid) = Len(panel)

(* the years each script's two windows cover together *)
InOuterRange(who, y) ==
    CASE who = "model_ab" -> y # NaN
      [] who = "controls" -> y # NaN /\ 2008 <= y /\ y <= 2024
      [] OTHER -> TRUE

(* C3 amended: the two subsets are disjoint and together hold exactly the *)
(* rows whose year is in the script's outer range (every row in           *)
(* sample_descriptives, a non-missing year in Model A/B, 2008..2024 in    *)
(* controls_summary); the other rows are in neither subset.               *)
C3_PartitionOfOuterRange ==
    out.op = "split" =>
        /\ \A i \in 1..Len(panel) :
              IF InOuterRange(out.who, panel[i].year)
              THEN InCovid(panel[i]) # InNonCovid(panel[i])
              ELSE ~InCovid(panel[i]) /\ ~InNonCovid(panel[i])
        /\ \A i \in 1..Len(panel) :
              InCovid(panel[i]) <=> (panel[i].year \in {2020, 2021})
        /\ Len(out.covid) + Len(out.noncovid) =
              Cardinality({i \in 1..Len(panel) :
                              InOuterRange(out.who, panel[i].year)})

(* controls_summary on a panel with a 2007 row: it is in neither subset *)
C3_Witness ==
    /\ out.op = "split" /\ out.who = "controls"
    /\ Len(panel) = 4
    /\ panel[1].year = 2007 /\ panel[2].year = 2019
    /\ panel[3].year = 2021 /\ panel[4].year = 2022
    /\ Rids(out.covid) = {3}
    /\ Rids(out.noncovid) = {2, 4}

RowsOf(f) == {f[i] : i \in 1..Len(f)}

(* C4: the indexer's output holds no entity below the minimum (2 rows     *)
(* after drop_singletons, 3 after the Hausman firm filter), and every     *)
(* entity at or above the minimum is kept with all its rows.              *)
C4_MinimumObservations ==
    out.op = "filter" =>
        LET min == IF out.who = "drop_singletons" THEN 2 ELSE 3
        IN  /\ \A e \in Entities(out.frame) : EntityCount(out.frame, e) >= min
            /\ RowsOf(out.frame) \subseteq RowsOf(panel)
            /\ \A i \in 1..Len(panel) :
                  EntityCount(panel, panel[i].firm) >= min
                      => panel[i] \in RowsOf(out.frame)
            /\ Len(out.frame) = Cardinality(RowsOf(out.frame))

(* the Hausman filter drops a one-row firm and keeps a three-row firm *)
C4_Witness ==
    /\ out.op = "filter" /\ out.who = "hausman"
    /\ EntityCount(panel, 1) = 1 /\ EntityCount(panel, 2) = 3
    /\ Len(out.frame) = 3 /\ Entities(out.frame) = {2}

(* ------------------------------- Model B ------------------------------- *)
REGRESSORS_B == {"env", "soc", "gov", "emp", "debt"}

DesignB(block, outcome, lag) ==
    drop_singletons(DropNa(LagModelB(block, lag), {outcome} \cup REGRESSORS_B))

FitOneB(block, label, next) ==
    LET outcome == OutcomeAt(pc.i)
        lag == LagAt(pc.i)
        data == DesignB(block, outcome, lag)
    IN  IF NoEstimablePanel(data)
        THEN /\ results' = Append(results,
                    ResultRow(label, outcome, lag, 0, "no_estimable_panel"))
             /\ cur' = [op |-> "fit_one", label |-> label, outcome |-> outcome,
                        lag |-> lag, data |-> data, fitted |-> FALSE,
                        fit |-> "none"]
             /\ pc' = next
        ELSE \E r \in PanelOLSOutcomes(data, Cardinality(REGRESSORS_B), FALSE) :
             /\ cur' = [op |-> "fit_one", label |-> label, outcome |-> outcome,
                        lag |-> lag, data |-> data, fitted |-> TRUE, fit |-> r]
             /\ IF r = "ok"
                THEN /\ results' = Append(results,
                            ResultRow(label, outcome, lag, Len(data), "ok"))
                     /\ pc' = next
                ELSE /\ results' = results
                     /\ pc' = At(pc.script, "aborted", pc.s, pc.i)

(* df[df[SECTOR].astype(str).str.contains("hotel", case=False, na=False)] *)
HotelsB(df) == Mask(df, {i \in 1..Len(df) : ContainsHotel(df[i].sector)})

SubsetB(df, label) ==
    CASE label = "Full Period" -> df
      [] label = "COVID" -> CovidAB(df)
      [] label = "Non-COVID" -> NonCovidAB(df)
      [] label = "Hotels Only" -> HotelsB(df)

SUBSETS_B == <<"Full Period", "COVID", "Non-COVID", "Hotels Only">>

(* for label, sub in subsets: for y in OUTCOMES: for L in LAGS *)
B_FitOne ==
    /\ Running("model_b", "subset")
    /\ FitOneB(SubsetB(panel, SUBSETS_B[pc.s]), SUBSETS_B[pc.s],
               IF pc.i + 1 < NPairs THEN At("model_b", "subset", pc.s, pc.i + 1)
               ELSE At("model_b", "write", pc.s, 0))
    /\ UNCHANGED <<panel, out, written>>

(* the write is indented into the body of the subset loop *)
B_Write ==
    /\ Running("model_b", "write")
    /\ written' = results
    /\ pc' = IF pc.s < Len(SUBSETS_B) THEN At("model_b", "subset", pc.s + 1, 0)
             ELSE At("model_b", "done", 0, 0)
    /\ UNCHANGED <<panel, out, results, cur>>

InitB ==
    /\ panel \in ScriptPanels(Cardinality(REGRESSORS_B) + 1)
    /\ out = Idle
    /\ pc = At("model_b", "subset", 1, 0)
    /\ results = <<>>
    /\ written = <<>>
    /\ cur = Idle

NextB ==
    \/ B_FitOne
    \/ B_Write

SpecB == InitB /\ [][NextB]_vars

(* --------------------------- controls_summary -------------------------- *)
REGRESSORS_C == {"esg_lag", "emp", "debt"}
Y_LIST == <<"roa", "niat">>
CONTROLS_LAG_LIST == <<0, 1, 2>>

(* defect: the row threshold compared with >= instead of > *)
valid_panel_geq(df_idxed) ==
    /\ Cardinality(Entities(df_idxed)) >= 2
    /\ Cardinality(Times(df_idxed)) >= 2
    /\ Len(df_idxed) >= MIN_PANEL_ROWS

valid_panel(df_idxed) ==
    /\ Cardinality(Entities(df_idxed)) >= 2
    /\ Cardinality(Times(df_idxed)) >= 2
    /\ Len(df_idxed) > MIN_PANEL_ROWS

(* run_block up to the check: lag column on a copy, the five columns, dropna *)
DesignC(df_idxed, lag) ==
    DropNa(LagControls(df_idxed, lag),
           {Y_LIST[1], Y_LIST[2]} \cup REGRESSORS_C)

ControlsRow(label, outcome, lag, data, coef, note) ==
    [Subset |-> label, Outcome |-> outcome, Lag |-> lag,
     entities |-> Cardinality(Entities(data)), N |-> Len(data),
     coef |-> coef, status |-> note]

HotelsC(df) == Mask(df, {i \in 1..Len(df) : ContainsHotel(df[i].sector)})

BLOCKS_C == <<"Full sample", "Hotels only", "COVID 2020-2021",
              "Non-COVID 2008-2019 & 2022-2024">>
FILES_C == <<"controls_full.csv", "controls_hotels.csv", "controls_covid.csv",
             "controls_noncovid.csv">>

(* main: the panel handed to the s-th call of run_block *)
BlockC(df, n) ==
    CASE n = 1 -> df
      [] n = 2 -> HotelsC(df)
      [] n = 3 -> CovidControls(df)
      [] n = 4 -> NonCovidControls(df)

NextLagC ==
    IF pc.i < Len(CONTROLS_LAG_LIST)
    THEN At("controls", "lag", pc.s, pc.i + 1)
    ELSE At("controls", "write", pc.s, 0)

(* run_block, one turn of the lag loop up to the panel check: an          *)
(* insufficient panel gets one skipped row per outcome and the loop goes  *)
(* on; a valid one goes to the fits                                       *)
C_BuildLag ==
    /\ Running("controls", "lag")
    /\ LET lag == CONTROLS_LAG_LIST[pc.i]
           label == BLOCKS_C[pc.s]
           df_lag == DesignC(BlockC(panel, pc.s), lag)
       IN  /\ cur' = [op |-> "run_block", label |-> label, outcome |-> "",
                      lag |-> lag, data |-> df_lag, fitted |-> FALSE,
                      fit |-> "none"]
           /\ IF ~valid_panel(df_lag)
              THEN /\ results' = results \o
                        [n \in 1..Len(Y_LIST) |->
                            ControlsRow(label, Y_LIST[n], lag, df_lag, NaN,
                                        "skipped: insufficient panel")]
                   /\ pc' = NextLagC
              ELSE /\ results' = results
                   /\ pc' = At("controls", "fit1", pc.s, pc.i)
    /\ UNCHANGED <<panel, out, written>>

(* row["note"] = f"skipped: {type(e).__name__}" *)
SkipNote(e) ==
    CASE e = "ValueError" -> "skipped: ValueError"
      [] e = "AbsorbingEffectError" -> "skipped: AbsorbingEffectError"

(* try_fit: the fit is inside try/except, an exception becomes the note *)
TryFit(n, next) ==
    \E r \in PanelOLSOutcomes(cur.data, Cardinality(REGRESSORS_C), FALSE) :
        /\ cur' = [cur EXCEPT !.op = "try_fit", !.outcome = Y_LIST[n],
                              !.fitted = TRUE, !.fit = r]
        /\ results' = Append(results,
              IF r = "ok"
              THEN ControlsRow(cur.label, Y_LIST[n], cur.lag, cur.data, 1, "")
              ELSE ControlsRow(cur.label, Y_LIST[n], cur.lag, cur.data, NaN,
                               SkipNote(r)))
        /\ pc' = next

C_TryFitFirst ==
    /\ Running("controls", "fit1")
    /\ TryFit(1, At("controls", "fit2", pc.s, pc.i))
    /\ UNCHANGED <<panel, out, written>>

C_TryFitSecond ==
    /\ Running("controls", "fit2")
    /\ TryFit(2, NextLagC)
    /\ UNCHANGED <<panel, out, written>>

(* run_block returns its rows and main writes them to the block's file *)
C_Write ==
    /\ Running("controls", "write")
    /\ written' = Append(written, [file |-> FILES_C[pc.s], n |-> Len(results)])
    /\ results' = <<>>
    /\ cur' = Idle
    /\ pc' = IF pc.s < Len(BLOCKS_C) THEN At("controls", "lag", pc.s + 1, 1)
             ELSE At("controls", "done", 0, 0)
    /\ UNCHANGED <<panel, out>>

(* controls_summary needs more than 10 rows: firm 1 (a hotel) with r1    *)
(* rows from year start on, firm 2 with r2 rows, every year the same when *)
(* flat, the d-th row of firm 1 without a score                           *)
GridRow(i, r1, start, flat, d) ==
    LET firm == IF i <= r1 THEN 1 ELSE 2
        j == IF i <= r1 THEN i ELSE i - r1
    IN  KindRow(i, firm, IF flat THEN start ELSE start + j - 1,
                IF firm = 1 THEN HotelsLabel ELSE FoodLabel,
                IF i = d THEN "noscore" ELSE "full")

SecondFirmRows == {0, 1, 2, 5}

GridPanels ==
    {[i \in 1..(r1 + r2) |-> GridRow(i, r1, start, flat, d)] :
        r1 \in 0..MaxFirmRows, r2 \in SecondFirmRows,
        start \in {2008, 2014}, flat \in BOOLEAN, d \in {0, 1, 2}}

InitC ==
    /\ panel \in GridPanels
    /\ out = Idle
    /\ pc = At("controls", "lag", 1, 1)
    /\ results = <<>>
    /\ written = <<>>
    /\ cur = Idle

NextC ==
    \/ C_BuildLag
    \/ C_TryFitFirst
    \/ C_TryFitSecond
    \/ C_Write

SpecC == InitC /\ [][NextC]_vars

(* ======================== properties of the scripts ==================== *)
SUBSET_LABELS == <<"Full Period", "COVID", "Non-COVID", "Hotels Only">>

(* the (Subset, Outcome, Lag) combinations in loop order *)
Combinations ==
    [n \in 1..(Len(SUBSET_LABELS) * NPairs) |->
        <<SUBSET_LABELS[((n - 1) \div NPairs) + 1],
          OutcomeAt((n - 1) % NPairs), LagAt((n - 1) % NPairs)>>]

KeyOf(row) == <<row.Subset, row.Outcome, row.Lag>>

RowsFor(table, key) == {n \in 1..Len(table) : KeyOf(table[n]) = key}

Ended == pc.at \in {"done", "aborted"}

LastRowIs(label, outcome, lag) ==
    /\ Len(results) > 0
    /\ KeyOf(results[Len(results)]) = <<label, outcome, lag>>

(* C6: a fit that fails for one (subset, outcome, lag) combination does   *)
(* not abort the batch: the combination is recorded as a skipped row with *)
(* a reason and the remaining combinations are still processed.           *)
C6_FailureIsSkipped ==
    (cur.op = "fit_one" /\ cur.fitted /\ cur.fit # "ok") =>
        /\ pc.at # "aborted"
        /\ LastRowIs(cur.label, cur.outcome, cur.lag)
        /\ results[Len(results)].status # "ok"

(* C8: the table Model A finally writes holds exactly one row for each of *)
(* the 32 (Subset, Outcome, Lag) combinations.                            *)
C8_ModelAOneRowPerCombination ==
    (pc.script = "model_a" /\ pc.at = "done") =>
        /\ Len(written) = 32
        /\ \A n \in 1..Len(Combinations) :
              Cardinality(RowsFor(written, Combinations[n])) = 1

(* C10: fit_one answers no_estimable_panel with N = 0 exactly when no row *)
(* is left after dropna and drop_singletons; in every other case the      *)
(* model is fitted on a design whose smallest entity has at least 2 rows  *)
(* and the row has status ok with N the number of design rows.            *)
C10_StatusMatchesDesign ==
    cur.op = "fit_one" =>
        IF Len(cur.data) = 0
        THEN /\ ~cur.fitted
             /\ LastRowIs(cur.label, cur.outcome, cur.lag)
             /\ results[Len(results)].status = "no_estimable_panel"
             /\ results[Len(results)].N = 0
        ELSE /\ cur.fitted
             /\ MinEntityCount(cur.data) >= 2
             /\ LastRowIs(cur.label, cur.outcome, cur.lag)
             /\ results[Len(results)].status = "ok"
             /\ results[Len(results)].N = Len(cur.data)

(* C9: the table Model B finally writes holds exactly one row for each    *)
(* (Subset, Outcome, Lag) combination, in loop order.                     *)
C9_ModelBOneRowPerCombination ==
    (pc.script = "model_b" /\ Ended /\ Len(written) > 0) =>
        /\ Len(written) = Len(Combinations)
        /\ \A n \in 1..Len(Combinations) : KeyOf(written[n]) = Combinations[n]

(* C5: every design handed to the estimator holds only entities with at   *)
(* least 2 time observations.                                             *)
C5_NoSingletonInDesign ==
    (cur.op \in {"fit_one", "try_fit"} /\ cur.fitted) =>
        \A e \in Entities(cur.data) :
            Cardinality({cur.data[i].year :
                            i \in {j \in 1..Len(cur.data) :
                                      cur.data[j].firm = e}}) >= 2

LastRows(n) == SubSeq(results, Len(results) - n + 1, Len(results))

(* C7: in controls_summary run_block a lagged, NaN-dropped block is       *)
(* estimated only if it has at least 2 entities, at least 2 time points   *)
(* and more than 10 rows; otherwise no fit is attempted, one row per      *)
(* outcome is recorded with note "skipped: insufficient panel" and        *)
(* missing coefficients, and the loop goes on with the next lag.          *)
C7_InsufficientPanelSkipped ==
    LET enough == /\ Cardinality(Entities(cur.data)) >= 2
                  /\ Cardinality(Times(cur.data)) >= 2
                  /\ Len(cur.data) >= 11
    IN  /\ cur.op = "try_fit" => enough
        /\ (cur.op = "run_block" /\ enough) =>
              /\ pc.at = "fit1"
              /\ \A n \in 1..Len(results) : results[n].Lag # cur.lag
        /\ (cur.op = "run_block" /\ ~enough) =>
              /\ ~cur.fitted
              /\ pc.at \in {"lag", "write"}
              /\ pc.at = "lag" => pc.i = cur.lag + 2
              /\ pc.at = "write" => cur.lag = 2
              /\ Len(results) >= 2
              /\ LastRows(2)[1].Outcome = "roa"
              /\ LastRows(2)[2].Outcome = "niat"
              /\ \A n \in 1..2 :
                    /\ LastRows(2)[n].Lag = cur.lag
                    /\ LastRows(2)[n].status = "skipped: insufficient panel"
                    /\ LastRows(2)[n].coef = NaN
              /\ Cardinality({n \in 1..Len(results) :
                                 results[n].Lag = cur.lag}) = 2

(* exactly 10 rows over 2 entities and several years: rejected, and the   *)
(* next lag is up                                                        *)
C7_Witness ==
    /\ cur.op = "run_block" /\ cur.lag = 0
    /\ Len(cur.data) = 10
    /\ Cardinality(Entities(cur.data)) = 2
    /\ Cardinality(Times(cur.data)) >= 2
    /\ pc = At("controls", "lag", 1, 2)
    /\ Len(results) = 2
    /\ results[1].status = "skipped: insufficient panel"

(* ========================== column resolution ========================== *)
(* A column name is the sequence of its characters.                        *)
UPPER == <<"A", "B", "C", "D", "E", "F", "G", "H", "I", "J", "K", "L", "M",
           "N", "O", "P", "Q", "R", "S", "T", "U", "V", "W", "X", "Y", "Z">>
LOWER == <<"a", "b", "c", "d", "e", "f", "g", "h", "i", "j", "k", "l", "m",
           "n", "o", "p", "q", "r", "s", "t", "u", "v", "w", "x", "y", "z">>
DIGITS == {"0", "1", "2", "3", "4", "5", "6", "7", "8", "9"}

IsLowerLetter(ch) == \E n \in 1..Len(LOWER) : LOWER[n] = ch
IsLowerAlnum(ch) == IsLowerLetter(ch) \/ ch \in DIGITS

(* str.lower() *)
ToLower(ch) ==
    IF \E n \in 1..Len(UPPER) : UPPER[n] = ch
    THEN LOWER[CHOOSE n \in 1..Len(UPPER) : UPPER[n] = ch]
    ELSE ch

LowerStr(name) == [i \in 1..Len(name) |-> ToLower(name[i])]

(* re.sub(r"[^a-z]", "", k) on a lowered name *)
StripNonLetters(name) == SelectSeq(name, IsLowerLetter)

(* vif_diagnostics._norm: re.sub(r"[^a-z0-9]", "", s.lower()) *)
_norm(name) == SelectSeq(LowerStr(name), IsLowerAlnum)

(* Python's  a in b  on strings *)
IsSubstring(a, b) ==
    \E k \in 0..(Len(b) - Len(a)) : \A j \in 1..Len(a) : b[k + j] = a[j]

(* a dict built from (key, value) pairs: keys in order of first insertion, *)
(* each with the value inserted last                                       *)
DictFrom(pairs) ==
    LET firsts == {i \in 1..Len(pairs) :
                     \A j \in 1..(i - 1) : pairs[j][1] # pairs[i][1]}
        keys == Mask(pairs, firsts)
    IN  [n \in 1..Len(keys) |->
            <<keys[n][1],
              pairs[CHOOSE i \in 1..Len(pairs) :
                       /\ pairs[i][1] = keys[n][1]
                       /\ \A j \in (i + 1)..Len(pairs) :
                             pairs[j][1] # keys[n][1]][2]>>]

DictHas(d, k) == \E n \in 1..Len(d) : d[n][1] = k
DictGet(d, k) == d[CHOOSE n \in 1..Len(d) : d[n][1] = k][2]

(* the first index of seq satisfying a test given as a set of indices *)
FirstIn(S) == CHOOSE n \in S : \A m \in S : n <= m

Found(col) == [found |-> TRUE, column |-> col]
(* a raised KeyError; its message is an f-string: the literal pieces and *)
(* the values interpolated between them                                 *)
KeyError(text, shown) ==
    [found |-> FALSE, raised |-> "KeyError",
     message |-> [text |-> text, shown |-> shown]]

(* hausman_appendix_A1.resolve_columns.pick(names) over the table's columns *)
pick(columns, names) ==
    LET cols == DictFrom([i \in 1..Len(columns) |->
                            <<LowerStr(columns[i]), columns[i]>>])
        norm == DictFrom([n \in 1..Len(cols) |->
                            <<StripNonLetters(cols[n][1]), cols[n][2]>>])
        exact == {a \in 1..Len(names) : DictHas(cols, LowerStr(names[a]))}
        loose == {a \in 1..Len(names) :
                    DictHas(norm, StripNonLetters(LowerStr(names[a])))}
        within == {n \in 1..Len(cols) :
                     \E a \in 1..Len(names) :
                        IsSubstring(LowerStr(names[a]), cols[n][1])}
    IN  IF exact # {}
        THEN Found(DictGet(cols, LowerStr(names[FirstIn(exact)])))
        ELSE IF loose # {}
        THEN Found(DictGet(norm, StripNonLetters(LowerStr(names[FirstIn(loose)]))))
        ELSE IF within # {}
        THEN Found(cols[FirstIn(within)][2])
        ELSE KeyError(<<"Missing any of ">>, <<names>>)

(* vif_diagnostics.find_col(df, candidates) *)
find_col(columns, candidates) ==
    LET m == DictFrom([i \in 1..Len(columns) |->
                         <<_norm(columns[i]), columns[i]>>])
        hit == {c \in 1..Len(candidates) : DictHas(m, _norm(candidates[c]))}
    IN  IF hit # {}
        THEN Found(DictGet(m, _norm(candidates[FirstIn(hit)])))
        ELSE KeyError(<<"Missing any of ", ". Columns: ">>, <<candidates, columns>>)

(* model_a_panel_fe: miss = [c for c in required if c not in df.columns] *)
CheckRequired(columns, required) ==
    LET miss == Mask(required,
                     {r \in 1..Len(required) :
                        \A i \in 1..Len(columns) : columns[i] # required[r]})
    IN  IF Len(miss) = 0 THEN [found |-> TRUE, column |-> required[1]]
        ELSE [found |-> FALSE, raised |-> "ValueError",
              message |-> [text |-> <<"Missing required columns: ">>,
                          shown |-> <<miss>>]]

(* alias lists of the year field *)
HAUSMAN_YEAR == << <<"Y","e","a","r">>, <<"F","Y">>,
                   <<"F","i","s","c","a","l","Y","e","a","r">>,
                   <<"F","i","s","c","a","l","_","Y","e","a","r">>,
                   <<"f","y","e","a","r">> >>
HAUSMAN_ROA == << <<"R","O","A">> >>
VIF_YEAR == << <<"Y","e","a","r">>,
               <<"F","i","s","c","a","l","Y","e","a","r">>, <<"F","Y">> >>
REQUIRED_A == << <<"Y","e","a","r">>, <<"R","O","A">> >>

AliasesOf(who, field) ==
    IF who = "vif" THEN VIF_YEAR
    ELSE IF who = "model_a" THEN REQUIRED_A
    ELSE IF field = "year" THEN HAUSMAN_YEAR ELSE HAUSMAN_ROA

(* headers a table may carry *)
Headers ==
    { <<"Y","e","a","r">>, <<"Y","E","A","R">>, <<"F","Y">>,
      <<"f",".","y",".">>, <<"F","i","s","c","a","l"," ","Y","e","a","r">>,
      <<"y","e","a","r","2">>, <<"f","y","_","e","n","d">>,
      <<"y","e","a","r","l","y">>, <<"R","O","A">>, <<"r","o","a","_","p","c","t">>,
      <<"C","o","d","e">> }

RECURSIVE HeaderLists(_)
(* the tables' column lists: up to n distinct headers in any order *)
HeaderLists(n) ==
    IF n = 0 THEN {<<>>}
    ELSE LET prev == HeaderLists(n - 1)
         IN  prev \cup
             UNION {{Append(s, h) : h \in Headers \ {s[i] : i \in 1..Len(s)}} :
                       s \in {t \in prev : Len(t) = n - 1}}

(* the table as read from the CSV, before any column is resolved *)
InitK ==
    /\ panel \in {[columns |-> h] : h \in HeaderLists(MaxCols) \ {<<>>}}
    /\ out = Idle
    /\ pc = At("resolve", "apply", 0, 0)
    /\ results = <<>>
    /\ written = <<>>
    /\ cur = Idle

Resolving ==
    /\ pc.script = "resolve"
    /\ out = Idle
    /\ UNCHANGED <<panel, pc, results, written, cur>>

(* labels = resolve_columns(df0), one logical field *)
ResolveColumnsHausman ==
    /\ Resolving
    /\ \E field \in {"year", "roa"} :
        out' = [op |-> "resolve", who |-> "hausman", field |-> field,
                names |-> AliasesOf("hausman", field),
                res |-> pick(panel.columns, AliasesOf("hausman", field))]

(* year = find_col(df, ["Year", "FiscalYear", "FY"]) *)
FindColVIF ==
    /\ Resolving
    /\ out' = [op |-> "resolve", who |-> "vif", field |-> "year",
               names |-> AliasesOf("vif", "year"),
               res |-> find_col(panel.columns, AliasesOf("vif", "year"))]

(* Model A's check of its required columns *)
CheckRequiredModelA ==
    /\ Resolving
    /\ out' = [op |-> "resolve", who |-> "model_a", field |-> "required",
               names |-> AliasesOf("model_a", "required"),
               res |-> CheckRequired(panel.columns,
                                     AliasesOf("model_a", "required"))]

NextK ==
    \/ ResolveColumnsHausman
    \/ FindColVIF
    \/ CheckRequiredModelA

SpecK == InitK /\ [][NextK]_vars

(* the tiers of a tolerant match of column col against alias a, with the  *)
(* normaliser of the resolving script                                     *)
Loose(who, name) ==
    IF who = "vif" THEN _norm(name) ELSE StripNonLetters(LowerStr(name))

TierMatch(who, t, col, a) ==
    CASE t = 1 -> LowerStr(col) = LowerStr(a)
      [] t = 2 -> Loose(who, col) = Loose(who, a)
      [] t = 3 -> IsSubstring(LowerStr(a), LowerStr(col))

TierHits(who, t, columns, names) ==
    {a \in 1..Len(names) :
        \E i \in 1..Len(columns) : TierMatch(who, t, columns[i], names[a])}

BestTier(who, columns, names) ==
    FirstIn({t \in 1..3 : TierHits(who, t, columns, names) # {}})

AnyTier(who, columns, names) ==
    \E t \in 1..3 : TierHits(who, t, columns, names) # {}

(* C15: resolution returns a column matched in the earliest tier that has *)
(* any match (exact, then punctuation-insensitive, then substring), by    *)
(* the earliest alias of the list that matches in that tier.              *)
C15_TieredResolution ==
    (out.op = "resolve" /\ out.who \in {"hausman", "vif"}
        /\ AnyTier(out.who, panel.columns, out.names)) =>
        LET t == BestTier(out.who, panel.columns, out.names)
            a == FirstIn(TierHits(out.who, t, panel.columns, out.names))
        IN  /\ out.res.found
            /\ TierMatch(out.who, t, out.res.column, out.names[a])

(* C16: when no column matches any alias of a required field, resolution  *)
(* fails before any estimation, and the error names the logical field and *)
(* the alias list tried.                                                   *)
C16_ErrorNamesFieldAndAliases ==
    (out.op = "resolve" /\ ~out.res.found) =>
        /\ results = <<>> /\ written = <<>>
        /\ \E n \in 1..Len(out.res.message.shown) :
              out.res.message.shown[n] = out.names
        /\ \E n \in 1..Len(out.res.message.text) :
              out.res.message.text[n] = out.field

(* ============================ panel indexing =========================== *)
RECURSIVE InsertSorted(_, _)
(* r placed after the rows of the sorted frame f whose key is not greater *)
InsertSorted(f, r) ==
    IF Len(f) = 0 THEN <<r>>
    ELSE IF KeyLeq(f[Len(f)], r) THEN Append(f, r)
         ELSE Append(InsertSorted(SubSeq(f, 1, Len(f) - 1), r), f[Len(f)])

RECURSIVE SortByKey(_)
(* sort_index() / sort_values([firm, year]): a stable sort on (firm, year) *)
(* with missing years last; no row is removed                              *)
SortByKey(f) ==
    IF Len(f) = 0 THEN <<>>
    ELSE InsertSorted(SortByKey(SubSeq(f, 1, Len(f) - 1)), f[Len(f)])

(* dropna(subset=[firm, year]); the firm is always present here *)
DropMissingKeys(f) == Mask(f, {i \in 1..Len(f) : f[i].year # NaN})

(* model_a / model_b: df.set_index([FIRM, YEAR]).sort_index() *)
IndexModelAB(df) == SortByKey(df)

(* hausman_appendix_A1: dropna on the keys, sort_values, set_index *)
IndexHausman(df0) == SortByKey(DropMissingKeys(df0))

(* controls_summary.prep *)
prep(df) == SortByKey(DropMissingKeys(df))

(* vif_diagnostics: df.sort_values([firm, year]) *)
IndexVIF(df) == SortByKey(df)

RawYears == {NaN, 2019, 2020}
RawCells == [firm : Firms, year : RawYears]

(* the tables read from the CSV: rows in file order, firm-year pairs      *)
(* possibly repeated, years possibly missing                              *)
RawTables ==
    {[i \in 1..Len(s) |->
        MkRow(i, s[i].firm, s[i].year, HotelsLabel, 1, 1, 1, 1, 1)] :
        s \in UNION {[1..n -> RawCells] : n \in 0..MaxRows}}

InitL ==
    /\ panel \in RawTables
    /\ out = Idle
    /\ pc = At("index", "apply", 0, 0)
    /\ results = <<>>
    /\ written = <<>>
    /\ cur = Idle

Indexing ==
    /\ pc.script = "index"
    /\ out = Idle
    /\ UNCHANGED <<panel, pc, results, written, cur>>

ApplyIndexModelAB ==
    /\ Indexing
    /\ out' = [op |-> "index", who |-> "model_ab", frame |-> IndexModelAB(panel)]

ApplyIndexHausman ==
    /\ Indexing
    /\ out' = [op |-> "index", who |-> "hausman", frame |-> IndexHausman(panel)]

ApplyPrep ==
    /\ Indexing
    /\ out' = [op |-> "index", who |-> "controls", frame |-> prep(panel)]

ApplyIndexVIF ==
    /\ Indexing
    /\ out' = [op |-> "index", who |-> "vif", frame |-> IndexVIF(panel)]

NextL ==
    \/ ApplyIndexModelAB
    \/ ApplyIndexHausman
    \/ ApplyPrep
    \/ ApplyIndexVIF

SpecL == InitL /\ [][NextL]_vars

UniqueKeys(f) ==
    \A i, j \in 1..Len(f) :
        (f[i].firm = f[j].firm /\ f[i].year = f[j].year) => i = j

(* C17: after indexing, the panel used for lagging is sorted by entity    *)
(* and then by time, and no (entity, time) pair occurs twice, whatever    *)
(* the input table holds.                                                 *)
C17_SortedAndUnique ==
    out.op = "index" => IsSorted(out.frame) /\ UniqueKeys(out.frame)

(* ===================== hotels subset and frame copies ================== *)
IsWordChar(ch) == IsLowerAlnum(ToLower(ch)) \/ ch = "_"

(* re.search(r"\bhotel(s)?\b", label, IGNORECASE): the word hotel or      *)
(* hotels with a word boundary on both sides                              *)
MatchesHotelWord(label) ==
    \E k \in 0..(Len(label) - Len(HOTEL)) :
        /\ \A j \in 1..Len(HOTEL) : ToLower(label[k + j]) = HOTEL[j]
        /\ k = 0 \/ ~IsWordChar(label[k])
        /\ \E e \in {k + Len(HOTEL)} \cup
                    {n \in {k + Len(HOTEL) + 1} :
                        n <= Len(label) /\ ToLower(label[n]) = "s"} :
              e = Len(label) \/ ~IsWordChar(label[e + 1])

(* hausman_appendix_A1: df[df[sector].astype(str).str.contains(regex)] *)
HotelsHausman(df) == Mask(df, {i \in 1..Len(df) : MatchesHotelWord(df[i].sector)})

(* vif_diagnostics: df[hotel_mask(df[sector])] *)
hotel_mask(df) == {i \in 1..Len(df) : MatchesHotelWord(df[i].sector)}
HotelsVIF(df) == Mask(df, hotel_mask(df))

AparthotelsLabel == <<"A", "p", "a", "r", "t", "h", "o", "t", "e", "l", "s">>
UpperHotelLabel == <<"H", "O", "T", "E", "L">>
MissingLabel == <<>>

(* ---- frames as objects: a heap of frames, a reference is an object id -- *)
(* defect: the name bound to the same object, no copy made *)
copy_alias(heap, ref) == [heap |-> heap, ref |-> ref]

(* DataFrame.copy(): a new object holding the same rows *)
copy(heap, ref) ==
    LET new == Cardinality(DOMAIN heap) + 1
    IN  [heap |-> (new :> heap[ref]) @@ heap, ref |-> new]

(* obj[c] = col: the column is written into the object itself *)
SetItem(heap, ref, c, col) ==
    LET f == heap[ref]
        g == IF Len(f) > 0 /\ c \in DOMAIN f[1]
             THEN WithColumn(f, c, col) ELSE AddColumn(f, c, col)
    IN  [heap EXCEPT ![ref] = g]

(* model_a fit_one, lines 55-57: X is a copy, the lag is written into X *)
FitOneAHeap(heap, block, lag) ==
    LET X == copy(heap, block)
    IN  IF lag # 0
        THEN [heap |-> SetItem(X.heap, X.ref, "esg",
                               GroupShift(X.heap[X.ref], "esg", lag)),
              ref |-> X.ref]
        ELSE X

(* hausman build_design, lines 67-68 *)
BuildDesignHeap(heap, df_idx, lag) ==
    LET df == copy(heap, df_idx)
    IN  [heap |-> SetItem(df.heap, df.ref, "esg_lag",
                          GroupShift(df.heap[df.ref], "esg", lag)),
         ref |-> df.ref]

(* controls_summary run_block, lines 67-68 *)
RunBlockHeap(heap, df_idxed, lag) ==
    LET df_lag == copy(heap, df_idxed)
    IN  [heap |-> SetItem(df_lag.heap, df_lag.ref, "esg_lag",
                          GroupShift(df_lag.heap[df_lag.ref], "esg", lag)),
         ref |-> df_lag.ref]

SectorLabels == {HotelsLabel, FoodLabel, AparthotelsLabel, UpperHotelLabel,
                 MissingLabel}
SectorCells == [firm : Firms, year : {2019, 2020}, sector : SectorLabels,
                esg : {1, 2}]

SectorPanels ==
    {[i \in 1..Len(s) |->
        MkRow(i, s[i].firm, s[i].year, s[i].sector, s[i].esg, 1, 1, 1, 1)] :
        s \in SortedCells(SectorCells, MaxRows, TRUE)}

InitS ==
    /\ panel \in SectorPanels
    /\ out = Idle
    /\ pc = At("subsets", "apply", 0, 0)
    /\ results = <<>>
    /\ written = <<>>
    /\ cur = Idle

Deriving ==
    /\ pc.script = "subsets"
    /\ out = Idle
    /\ UNCHANGED <<pc, results, written, cur>>

ApplyHotelsA ==
    /\ Deriving /\ UNCHANGED panel
    /\ out' = [op |-> "hotels", who |-> "model_a", frame |-> HotelsA(panel)]

ApplyHotelsB ==
    /\ Deriving /\ UNCHANGED panel
    /\ out' = [op |-> "hotels", who |-> "model_b", frame |-> HotelsB(panel)]

ApplyHotelsC ==
    /\ Deriving /\ UNCHANGED panel
    /\ out' = [op |-> "hotels", who |-> "controls", frame |-> HotelsC(panel)]

ApplyHotelsHausman ==
    /\ Deriving /\ UNCHANGED panel
    /\ out' = [op |-> "hotels", who |-> "hausman", frame |-> HotelsHausman(panel)]

ApplyHotelsVIF ==
    /\ Deriving /\ UNCHANGED panel
    /\ out' = [op |-> "hotels", who |-> "vif", frame |-> HotelsVIF(panel)]

(* the panel is object 1 of the heap; after the call it is what object 1  *)
(* then holds                                                             *)
CallFitOneA ==
    /\ Deriving
    /\ \E lag \in LAGS :
        LET r == FitOneAHeap(1 :> panel, 1, lag)
        IN  /\ panel' = r.heap[1]
            /\ out' = [op |-> "call", who |-> "fit_one", lag |-> lag,
                       before |-> panel, frame |-> r.heap[r.ref]]

CallBuildDesign ==
    /\ Deriving
    /\ \E lag \in LAGS :
        LET r == BuildDesignHeap(1 :> panel, 1, lag)
        IN  /\ panel' = r.heap[1]
            /\ out' = [op |-> "call", who |-> "build_design", lag |-> lag,
                       before |-> panel, frame |-> r.heap[r.ref]]

CallRunBlock ==
    /\ Deriving
    /\ \E lag \in CONTROLS_LAGS :
        LET r == RunBlockHeap(1 :> panel, 1, lag)
        IN  /\ panel' = r.heap[1]
            /\ out' = [op |-> "call", who |-> "run_block", lag |-> lag,
                       before |-> panel, frame |-> r.heap[r.ref]]

NextS ==
    \/ ApplyHotelsA
    \/ ApplyHotelsB
    \/ ApplyHotelsC
    \/ ApplyHotelsHausman
    \/ ApplyHotelsVIF
    \/ CallFitOneA
    \/ CallBuildDesign
    \/ CallRunBlock

SpecS == InitS /\ [][NextS]_vars

(* C18: building a lagged design leaves the source panel as it was: the   *)
(* same rows, the same columns (no lag column) and the same values after  *)
(* fit_one, build_design or run_block have worked on it.                  *)
C18_SourcePanelUnchanged ==
    out.op = "call" => panel = out.before

(* a lag of one year was written into the design of a two-row firm, and   *)
(* the panel has neither the lag column nor the shifted values            *)
C18_Witness ==
    /\ out.op = "call" /\ out.who \in {"build_design", "fit_one"}
    /\ out.lag = 1
    /\ Len(panel) >= 2 /\ panel[1].firm = panel[2].firm
    /\ panel[1].esg # panel[2].esg
    /\ out.frame # panel
    /\ "esg_lag" \notin DOMAIN panel[1]
    /\ panel = out.before

(* C19: the hotels-only subset is exactly the rows whose sector label     *)
(* contains "hotel" as a case-insensitive substring, rows with a missing  *)
(* sector excluded, in every script that builds it.                       *)
C19_HotelsBySubstring ==
    out.op = "hotels" =>
        out.frame = Mask(panel, {i \in 1..Len(panel) :
                                    ContainsHotel(panel[i].sector)})

(* ============================ VIF calculator =========================== *)
(* A design of two numeric columns x1, x2 without missing values (the     *)
(* script drops the rows with a missing regressor before the call).  A    *)
(* VIF is a ratio num/den, or infinite, or not a number.                  *)
RECURSIVE SumSeq(_)
SumSeq(v) == IF Len(v) = 0 THEN 0 ELSE v[1] + SumSeq(Tail(v))

Dot(u, v) == SumSeq([i \in 1..Len(u) |-> u[i] * v[i]])

IsConstantColumn(v) == \A i \in 1..Len(v) : v[i] = v[1]

(* n times the sum of squares about the mean *)
CenteredSS(v) == Len(v) * Dot(v, v) - SumSeq(v) * SumSeq(v)

Ratio(num, den) == [kind |-> "num", num |-> num, den |-> den]
Infinite == [kind |-> "inf"]
NotANumber == [kind |-> "nan"]

(* statsmodels variance_inflation_factor(arr, i) for a design of two      *)
(* columns: OLS(x_i, x_other) with no intercept added, rsquared of that   *)
(* fit (about the origin, unless x_other is itself a non-zero constant),  *)
(* and 1 / (1 - rsquared) in floating point                               *)
variance_inflation_factor(x_i, x_other) ==
    IF IsConstantColumn(x_other) /\ x_other[1] # 0
    THEN (IF CenteredSS(x_i) = 0 THEN NotANumber ELSE Ratio(1, 1))
    ELSE IF Dot(x_i, x_i) = 0 THEN NotANumber
    ELSE IF Dot(x_other, x_other) = 0 THEN Ratio(1, 1)
    ELSE LET tss == Dot(x_i, x_i) * Dot(x_other, x_other)
             ess == Dot(x_i, x_other) * Dot(x_i, x_other)
         IN  IF tss = ess THEN Infinite ELSE Ratio(tss, tss - ess)

(* vif_table(X): one VIF per column *)
vif_table(X) ==
    <<variance_inflation_factor(X[1], X[2]),
      variance_inflation_factor(X[2], X[1])>>

RatioLeq(a, b) == a.num * b.den <= b.num * a.den

(* tab["vif"].max(): missing values skipped *)
MaxVif(tab) ==
    IF \A n \in 1..Len(tab) : tab[n].kind = "nan" THEN NotANumber
    ELSE IF \E n \in 1..Len(tab) : tab[n].kind = "inf" THEN Infinite
    ELSE LET nums == {n \in 1..Len(tab) : tab[n].kind = "num"}
         IN  tab[CHOOSE n \in nums : \A m \in nums : RatioLeq(tab[m], tab[n])]

(* compute_block: the table with its largest VIF *)
compute_block(X) == [vif |-> vif_table(X), max_vif |-> MaxVif(vif_table(X))]

VifValues == {-1, 0, 1, 2}

Designs == [1..2 -> [1..VifRows -> VifValues]]

InitV ==
    /\ panel \in Designs
    /\ out = Idle
    /\ pc = At("vif", "apply", 0, 0)
    /\ results = <<>>
    /\ written = <<>>
    /\ cur = Idle

Diagnosing ==
    /\ pc.script = "vif"
    /\ out = Idle
    /\ UNCHANGED <<panel, pc, results, written, cur>>

ApplyVifTable ==
    /\ Diagnosing
    /\ out' = [op |-> "vif_table", vif |-> vif_table(panel)]

ApplyComputeBlock ==
    /\ Diagnosing
    /\ out' = [op |-> "compute_block", vif |-> compute_block(panel).vif,
               max_vif |-> compute_block(panel).max_vif]

NextV ==
    \/ ApplyVifTable
    \/ ApplyComputeBlock

SpecV == InitV /\ [][NextV]_vars

(* n^2 times the covariance of the two columns *)
Covariance(u, v) == Len(u) * Dot(u, v) - SumSeq(u) * SumSeq(v)

ZeroCorrelation(X) ==
    /\ CenteredSS(X[1]) # 0 /\ CenteredSS(X[2]) # 0
    /\ Covariance(X[1], X[2]) = 0

PerfectlyCollinear(X) ==
    /\ CenteredSS(X[1]) # 0 /\ CenteredSS(X[2]) # 0
    /\ Covariance(X[1], X[2]) * Covariance(X[1], X[2])
          = CenteredSS(X[1]) * CenteredSS(X[2])

IsOne(v) == v.kind = "num" /\ v.num = v.den
IsHuge(v) == v.kind = "inf" \/ (v.kind = "num" /\ v.num >= 1000 * v.den)

(* C20: on two columns with zero Pearson correlation the VIF of each is   *)
(* 1; on two perfectly collinear columns the VIF of each is infinite or   *)
(* very large, and the computation does not fail.                         *)
C20_VifOfTwoColumns ==
    out.op = "vif_table" =>
        /\ ZeroCorrelation(panel) => \A n \in 1..2 : IsOne(out.vif[n])
        /\ PerfectlyCollinear(panel) => \A n \in 1..2 : IsHuge(out.vif[n])

(* ========================= the Hausman appendix ======================== *)
HAUSMAN_X == <<"esg_lag", "emp", "debt">>

SeqToSet(q) == {q[n] : n \in 1..Len(q)}

(* build_design: the lag on a copy, the rows with y and every regressor   *)
(* present, and the regressors that are not constant over those rows      *)
(* (std of an empty column is NaN, which is not close to 0)               *)
build_design(df_idx, y_col, lag) ==
    LET df == LagHausman(df_idx, lag)
        kept == DropNa(df, {y_col} \cup SeqToSet(HAUSMAN_X))
        const_cols == {c \in SeqToSet(HAUSMAN_X) :
                         /\ Len(kept) > 0
                         /\ \A i \in 1..Len(kept) : kept[i][c] = kept[1][c]}
        NotConstant(c) == c \notin const_cols
    IN  [rows |-> kept, cols |-> SelectSeq(HAUSMAN_X, NotConstant)]

(* defect: only the empty design is reported NA *)
IsNAEmptyOnly(design) == Len(design.rows) = 0

(* if len(y) == 0 or X.shape[1] == 0 *)
IsNA(design) == Len(design.rows) = 0 \/ Len(design.cols) = 0

(* an optional number: chi2 and p are missing in an NA row *)
None == {}
Some(x) == {x}

HausmanRow(sample, outcome, lag, chi2, df, p, decision) ==
    [sample |-> sample, outcome |-> outcome, lag |-> lag, chi2 |-> chi2,
     df |-> df, p |-> p, decision |-> decision]

(* PanelOLS(y, X, entity_effects, time_effects, drop_absorbed=True).fit(): *)
(* the constructor raises on fewer rows than regressors; the fit drops    *)
(* the regressors absorbed by the effects, keeps at most as many as there *)
(* are degrees of freedom left, and raises when none is left; which ones  *)
(* are kept depends on the values                                         *)
FixedEffectsFit(rows, cols) ==
    {[status |-> "ValueError", params |-> {}]} \cup
    (IF Len(rows) < Len(cols) THEN {}
     ELSE {[status |-> "ok", params |-> S] :
             S \in {T \in SUBSET SeqToSet(cols) :
                      T # {} /\ Cardinality(T) <= ResidualDof(rows)}})

(* RandomEffects(y, X).fit(): every regressor is kept, or the fit raises *)
RandomEffectsFit(rows, cols) ==
    {[status |-> "ValueError", params |-> {}],
     [status |-> "ok", params |-> SeqToSet(cols)]}

(* upper tail of the chi-square distribution at whole values of the       *)
(* statistic, in millionths, for 1, 2 and 3 degrees of freedom            *)
CHI2_SF ==
    << <<317311, 157299, 83265, 45500, 25347, 14306, 8151, 4678, 2700, 1565,
         911, 532>>,
       <<606531, 367879, 223130, 135335, 82085, 49787, 30197, 18316, 11109,
         6738, 4087, 2479>>,
       <<801252, 572407, 391625, 261464, 171797, 111610, 71898, 46012, 29291,
         18566, 11726, 7383>> >>

P_ONE == 1000000
P_THRESHOLD == 50000

(* 1 - chi2.cdf(stat, df): the cdf is 0 up to 0 *)
Chi2UpperTail(stat, df) == IF stat <= 0 THEN P_ONE ELSE CHI2_SF[df][stat]

(* defect: the number of design columns before constants are dropped *)
HausmanDfDesignColumns(keep_idx) == Len(HAUSMAN_X)

(* df = int(len(keep_idx)) *)
HausmanDf(keep_idx) == Len(keep_idx)

(* hausman_stat: d = b_fe - b_re and V = V_fe - V_re over keep_idx.  The  *)
(* estimates est give d and the diagonal of V, whose entries are -1, 0 or *)
(* 1, so that the inverse of an invertible V has the same entries and the *)
(* pseudo-inverse of a singular one keeps the non-zero ones               *)
hausman_stat(est, keep_idx) ==
    LET singular == \E c \in SeqToSet(keep_idx) : est.v[c] = 0
        stat == SumSeq([n \in 1..Len(keep_idx) |->
                          est.d[keep_idx[n]] * est.d[keep_idx[n]]
                             * est.v[keep_idx[n]]])
        df == HausmanDf(keep_idx)
    IN  [stat |-> stat, df |-> df, pval |-> Chi2UpperTail(stat, df),
         pinv |-> singular]

RECURSIVE Pow10(_)
Pow10(k) == IF k = 0 THEN 1 ELSE 10 * Pow10(k - 1)

RECURSIVE NDigits(_)
NDigits(n) == IF n < 10 THEN 1 ELSE 1 + NDigits(n \div 10)

(* float(f"{p:.6g}"): p, a count of millionths, at 6 significant digits *)
Round6g(p) ==
    IF NDigits(p) <= 6 THEN p
    ELSE LET unit == Pow10(NDigits(p) - 6)
         IN  ((p + unit \div 2) \div unit) * unit

(* "FE" if p < 0.05 else "RE" *)
Decision(p) == IF p < P_THRESHOLD THEN "FE" ELSE "RE"

SAMPLES_H == <<"full", "hotels">>

SampleH(df, s) == IF s = 1 THEN df ELSE HotelsHausman(df)

NextPairH ==
    IF pc.i + 1 < NPairs THEN At("hausman", "run_block", pc.s, pc.i + 1)
    ELSE IF pc.s < Len(SAMPLES_H) THEN At("hausman", "run_block", pc.s + 1, 0)
    ELSE At("hausman", "write", 0, 0)

DesignH == build_design(SampleH(panel, pc.s), OutcomeAt(pc.i), LagAt(pc.i))

CurH(design, fitted, fe, re, h) ==
    [op |-> "run_block", sample |-> SAMPLES_H[pc.s], outcome |-> OutcomeAt(pc.i),
     lag |-> LagAt(pc.i), data |-> design.rows, cols |-> design.cols,
     fitted |-> fitted, fe |-> fe, re |-> re, h |-> h]

NoFit == [status |-> "none", params |-> {}]
NoStat == [stat |-> 0, df |-> 0, pval |-> 0, pinv |-> FALSE]

(* run_block, lines 84-87: the NA row, then the next lag *)
H_ReportNA ==
    /\ Running("hausman", "run_block")
    /\ IsNA(DesignH)
    /\ results' = Append(results,
            HausmanRow(SAMPLES_H[pc.s], OutcomeAt(pc.i), LagAt(pc.i),
                       None, 0, None, "NA"))
    /\ cur' = CurH(DesignH, FALSE, NoFit, NoFit, NoStat)
    /\ pc' = NextPairH
    /\ UNCHANGED <<panel, out, written>>

(* run_block, lines 88-99: both fits and the comparison; an exception of  *)
(* a fit, or the KeyError of params[keep_idx] when the FE fit dropped a   *)
(* regressor, is not caught and ends the script                           *)
H_Compare ==
    /\ Running("hausman", "run_block")
    /\ ~IsNA(DesignH)
    /\ \E fe \in FixedEffectsFit(DesignH.rows, DesignH.cols),
          re \in RandomEffectsFit(DesignH.rows, DesignH.cols) :
        LET keep_idx == DesignH.cols
            h == hausman_stat(out, keep_idx)
        IN  IF /\ fe.status = "ok" /\ re.status = "ok"
               /\ SeqToSet(keep_idx) \subseteq fe.params
            THEN /\ results' = Append(results,
                        HausmanRow(SAMPLES_H[pc.s], OutcomeAt(pc.i), LagAt(pc.i),
                                   Some(h.stat), h.df, Some(Round6g(h.pval)),
                                   Decision(h.pval)))
                 /\ cur' = CurH(DesignH, TRUE, fe, re, h)
                 /\ pc' = NextPairH
            ELSE /\ results' = results
                 /\ cur' = CurH(DesignH, TRUE, fe, re, NoStat)
                 /\ pc' = At("hausman", "aborted", pc.s, pc.i)
    /\ UNCHANGED <<panel, out, written>>

(* out = pd.concat([...]); out.to_csv("appendix_A1_hausman.csv") *)
H_Write ==
    /\ Running("hausman", "write")
    /\ written' = results
    /\ pc' = At("hausman", "done", 0, 0)
    /\ UNCHANGED <<panel, out, results, cur>>

(* ---- inputs: two firms over 2018..2021, the second with 0, 2 or 4 rows -- *)
HausmanYears == <<2018, 2019, 2020, 2021>>
EsgPatterns == {"vary", "const", "gap", "missing"}
ControlPatterns == {"vary", "const"}

PatternValue(pattern, n) ==
    CASE pattern = "vary" -> IF n % 2 = 1 THEN 1 ELSE 2
      [] pattern = "const" -> 1
      [] pattern = "gap" -> IF n = 2 THEN NaN ELSE IF n % 2 = 1 THEN 1 ELSE 2
      [] pattern = "missing" -> NaN

HausmanTable(second, sec, esg, ctl) ==
    [i \in 1..(Len(HausmanYears) + second) |->
        LET firm == IF i <= Len(HausmanYears) THEN 1 ELSE 2
            n == IF firm = 1 THEN i ELSE i - Len(HausmanYears)
        IN  MkRow(i, firm, HausmanYears[n],
                  IF firm = 1 THEN sec ELSE FoodLabel,
                  PatternValue(esg, n), PatternValue(ctl, n),
                  PatternValue(ctl, n + 1), PatternValue("vary", n),
                  PatternValue("vary", n))]

(* the panel after the firm filter of lines 120-122 *)
HausmanPanels ==
    {HausmanFirmFilter(HausmanTable(second, sec, esg, ctl)) :
        second \in {0, 2, 4}, sec \in {HotelsLabel, FoodLabel},
        esg \in EsgPatterns, ctl \in ControlPatterns}

(* what the two fits return on the data: the coefficient differences and  *)
(* the diagonal of the covariance difference                              *)
Estimates ==
    [op : {"estimates"},
     d : [esg_lag : {1, 3}, emp : {1}, debt : {1}],
     v : [SeqToSet(HAUSMAN_X) -> {-1, 0, 1}]]

InitH ==
    /\ panel \in HausmanPanels
    /\ out \in Estimates
    /\ pc = At("hausman", "run_block", 1, 0)
    /\ results = <<>>
    /\ written = <<>>
    /\ cur = Idle

NextH ==
    \/ H_ReportNA
    \/ H_Compare
    \/ H_Write

SpecH == InitH /\ [][NextH]_vars

(* ----------------------- properties of the appendix -------------------- *)
LastRow == results[Len(results)]

Computed ==
    /\ cur.op = "run_block" /\ cur.fitted
    /\ pc.script = "hausman" /\ pc.at # "aborted"

(* position of an (sample, outcome, lag) step in the run, counted from 0 *)
StepOf(s, i) == (s - 1) * NPairs + i

CurStep ==
    StepOf(CHOOSE s \in 1..Len(SAMPLES_H) : SAMPLES_H[s] = cur.sample,
           CHOOSE i \in 0..(NPairs - 1) :
              OutcomeAt(i) = cur.outcome /\ LagAt(i) = cur.lag)

RESULT_COLUMNS == {"sample", "outcome", "lag", "chi2", "df", "p", "decision"}

(* the row says that the pseudo-inverse was used: a column for it *)
Flagged(row) == DOMAIN row \ RESULT_COLUMNS # {}

(* C11: for every computed comparison the reported degrees of freedom are *)
(* the number of regressors shared by the FE and the RE fit, which are    *)
(* the non-constant columns of the design, and the decision is FE exactly *)
(* when the p-value is below 0.05 and RE otherwise.                       *)
C11_DfAndDecision ==
    Computed =>
        /\ LastRow.df = Cardinality(cur.fe.params \cap cur.re.params)
        /\ LastRow.df = Len(cur.cols)
        /\ LastRow.p = Some(Round6g(cur.h.pval))
        /\ LastRow.decision = "FE" <=> cur.h.pval < P_THRESHOLD
        /\ LastRow.decision = "RE" <=> cur.h.pval >= P_THRESHOLD

(* a comparison on fewer than the three design columns, decided FE *)
C11_Witness ==
    /\ Computed
    /\ LastRow.df < Len(HAUSMAN_X)
    /\ LastRow.decision = "FE"
    /\ cur.h.pval < P_THRESHOLD

(* C12: run_block reports NA, with chi2 and p missing, df 0 and neither   *)
(* model fitted, exactly when the design has no observation or no         *)
(* regressor left after the constant columns are dropped; the block goes  *)
(* on with the next lag.                                                  *)
C12_NAExactlyWhenNoDesign ==
    (cur.op = "run_block" /\ pc.script = "hausman") =>
        LET na == Len(cur.data) = 0 \/ Len(cur.cols) = 0
        IN  /\ na <=> ~cur.fitted
            /\ na =>
                /\ LastRow = HausmanRow(cur.sample, cur.outcome, cur.lag,
                                        None, 0, None, "NA")
                /\ pc.at \in {"run_block", "write", "done"}
                /\ pc.at = "run_block" => StepOf(pc.s, pc.i) = CurStep + 1
            /\ (~na /\ pc.at # "aborted") => LastRow.decision # "NA"

(* rows are left but every regressor is constant: NA, and the next lag is up *)
C12_Witness ==
    /\ cur.op = "run_block" /\ pc.script = "hausman"
    /\ Len(cur.data) > 0 /\ Len(cur.cols) = 0
    /\ ~cur.fitted
    /\ LastRow.decision = "NA" /\ LastRow.lag = 0
    /\ pc = At("hausman", "run_block", 1, 1)

(* C13: when the covariance difference is singular the comparison is made *)
(* with the pseudo-inverse and the result carries a flag saying so; no    *)
(* statistic computed through the pseudo-inverse is reported unflagged.   *)
C13_PinvIsFlagged ==
    (Computed /\ cur.h.pinv) => (Flagged(LastRow) \/ LastRow.chi2 = None)

(* C14: the statistic returned by hausman_stat is non-negative whenever   *)
(* the covariance difference is invertible, or else the row is flagged.   *)
C14_StatisticNonNegative ==
    Computed => (cur.h.stat >= 0 \/ Flagged(LastRow))

(* ================= constant and absorbed regressors ==================== *)
(* a column with one value over every row of a non-empty design *)
ConstantOver(rows, c) ==
    Len(rows) > 0 /\ \A i \in 1..Len(rows) : rows[i][c] = rows[1][c]

(* C21: a regressor that is constant over the rows of the design never    *)
(* makes the fixed-effects fit fail: whenever Model A hands the estimator *)
(* a design with such a column, the fit returns.  Model A builds PanelOLS *)
(* without drop_absorbed, so the estimator raises AbsorbingEffectError on *)
(* it, and nothing catches the exception.                                 *)
C21_ConstantRegressorNeverFails ==
    (/\ cur.op = "fit_one"
     /\ cur.fitted
     /\ \E c \in REGRESSORS_A : ConstantOver(cur.data, c)
     /\ ResidualDof(cur.data) >= Cardinality(REGRESSORS_A))
        => /\ cur.fit # "AbsorbingEffectError"
           /\ pc.at # "aborted"

(* ========================= model diagnostics =========================== *)
(* The residuals of one fixed-effects fit, a row per (entity, time) with  *)
(* the field resid, and the three diagnostics computed from them.  The    *)
(* body of the loop over the dependent variables is the same for each of  *)
(* them and keeps nothing from one pass to the next but the list rows.    *)
MaxResid == 5

DiagFirms == {1, 2, 3}
DiagYears == {2019, 2020, 2021}
ResidValues == {NaN, 1, 2}

(* the last entity may have residuals missing before the dropna *)
ResidCells ==
    [firm : DiagFirms \ {3}, year : DiagYears, resid : ResidValues \ {NaN}]
        \cup [firm : {3}, year : DiagYears, resid : ResidValues]

ResidSeries(n) ==
    {[i \in 1..Len(s) |-> [rid |-> i, firm |-> s[i].firm,
                           year |-> s[i].year, resid |-> s[i].resid]] :
        s \in SortedCells(ResidCells, n, TRUE)}

(* scipy.stats.pearsonr(x, y), squared: a ValueError on fewer than two    *)
(* points, NaN (with a warning) when either input is constant             *)
PearsonRSquared(x, y) ==
    IF Len(x) < 2 THEN [kind |-> "ValueError"]
    ELSE IF CenteredSS(x) = 0 \/ CenteredSS(y) = 0 THEN NotANumber
    ELSE LET sxy == Len(x) * Dot(x, y) - SumSeq(x) * SumSeq(y)
         IN  Ratio(sxy * sxy, CenteredSS(x) * CenteredSS(y))

(* 1 - chi2.cdf(stat, df) and 2 * (1 - norm.cdf(abs(stat))): missing for  *)
(* a missing statistic, otherwise a number determined by the statistic    *)
PValue(stat) ==
    IF stat.kind = "nan" THEN NotANumber ELSE [kind |-> "p", of |-> stat]

(* Wooldridge AR(1): e_lag = e.groupby(level=0).shift(1); mask; pearsonr  *)
(* over the masked pairs; n_eff * rho ** 2.  pairs holds, for each masked *)
(* row, the row its lagged value was taken from.                          *)
Wooldridge(e) ==
    LET e_lag == GroupShift(e, "resid", 1)
        from == GroupShift(e, "rid", 1)
        mask == {i \in 1..Len(e) : e[i].resid # NaN /\ e_lag[i] # NaN}
        both == Mask(AddColumn(e, "e_lag", e_lag), mask)
        rho2 == PearsonRSquared(Column(both, "resid"), Column(both, "e_lag"))
        n_eff == Cardinality(mask)
        pairs == {<<from[i], e[i].rid>> : i \in mask}
    IN  IF mask # {}
        THEN (IF rho2.kind = "ValueError"
              THEN [raised |-> TRUE, pairs |-> pairs, n_eff |-> n_eff,
                    stat |-> NotANumber]
              ELSE [raised |-> FALSE, pairs |-> pairs, n_eff |-> n_eff,
                    stat |-> IF rho2.kind = "nan" THEN NotANumber
                             ELSE Ratio(n_eff * rho2.num, rho2.den)])
        ELSE [raised |-> FALSE, pairs |-> pairs, n_eff |-> n_eff,
              stat |-> NotANumber]

(* e.unstack(level=0): index = time, columns = entity, NaN where the      *)
(* entity has no residual at that time                                    *)
unstack(e) ==
    [index |-> Times(e), columns |-> Entities(e),
     at |-> [t \in Times(e) |-> [f \in Entities(e) |->
                IF \E i \in 1..Len(e) : e[i].firm = f /\ e[i].year = t
                THEN e[CHOOSE i \in 1..Len(e) :
                          e[i].firm = f /\ e[i].year = t].resid
                ELSE NaN]]]

(* M.dropna(how="all", axis=0).dropna(how="all", axis=1) *)
DropAllMissing(M) ==
    LET idx == {t \in M.index : \E f \in M.columns : M.at[t][f] # NaN}
        cols == {f \in M.columns : \E t \in idx : M.at[t][f] # NaN}
    IN  [index |-> idx, columns |-> cols, at |-> M.at]

(* defect: two time points are enough *)
PesaranShapeTwoTimes(M) ==
    Cardinality(M.index) >= 2 /\ Cardinality(M.columns) >= 2

(* if M.shape[0] >= 3 and M.shape[1] >= 2 *)
PesaranShape(M) ==
    Cardinality(M.index) >= 3 /\ Cardinality(M.columns) >= 2

(* Pesaran CD: sqrt(T) * rbar * sqrt(N * (N - 1) / 2) in the branch of    *)
(* the shape test, kept as its factors T and N; the mean correlation rbar *)
(* of the de-meaned columns is a floating-point value not followed here   *)
(* (it is itself NaN when no two columns have a defined correlation)      *)
PesaranCD(e) ==
    LET M == DropAllMissing(unstack(e))
    IN  IF PesaranShape(M)
        THEN [kind |-> "cd", T |-> Cardinality(M.index),
              N |-> Cardinality(M.columns)]
        ELSE NotANumber

(* e.groupby(level=0).var(): ddof = 1, NaN for a group of one residual *)
GroupVar(e, f) ==
    LET v == Column(Mask(e, {i \in 1..Len(e) : e[i].firm = f}), "resid")
    IN  IF Len(v) < 2 THEN NotANumber
        ELSE Ratio(CenteredSS(v), Len(v) * (Len(v) - 1))

RECURSIVE SumOver(_, _)
(* the sum of term[x] over the finite set S *)
SumOver(S, term) ==
    IF S = {} THEN 0
    ELSE LET x == CHOOSE y \in S : TRUE
         IN  term[x] + SumOver(S \ {x}, term)

RECURSIVE ProductOver(_, _)
ProductOver(S, term) ==
    IF S = {} THEN 1
    ELSE LET x == CHOOSE y \in S : TRUE
         IN  term[x] * ProductOver(S \ {x}, term)

(* groupwise heteroskedasticity: gv.size counts every group, gv.mean()    *)
(* and gv.var() skip the undefined variances; the group variances are     *)
(* brought to one denominator, which cancels in var / mean ** 2           *)
GroupwiseHet(e) ==
    LET gv == [f \in Entities(e) |-> GroupVar(e, f)]
        size == Cardinality(Entities(e))
        defined == {f \in Entities(e) : gv[f].kind = "num"}
        m == Cardinality(defined)
        den == ProductOver(defined, [f \in defined |-> gv[f].den])
        scaled == [f \in defined |-> gv[f].num * (den \div gv[f].den)]
        sum == SumOver(defined, scaled)
        sumsq == SumOver(defined, [f \in defined |-> scaled[f] * scaled[f]])
    IN  [size |-> size, defined |-> m,
         stat |-> IF size >= 3 /\ sum > 0
                  THEN (IF m < 2 THEN NotANumber
                        ELSE Ratio(m * (m * sumsq - sum * sum) * size,
                                   (m - 1) * sum * sum))
                  ELSE NotANumber]

DiagnosticsRow(d, w, cd, het) ==
    [Obs_used |-> Len(d), Entities |-> Cardinality(Entities(d)),
     Years |-> Cardinality(Times(d)),
     Wooldridge_stat |-> w.stat, Wooldridge_pval |-> PValue(w.stat),
     PesaranCD_stat |-> cd, PesaranCD_pval |-> PValue(cd),
     Wald_stat |-> het.stat, Wald_pval |-> PValue(het.stat)]

(* one pass of the loop body after the fit: e = res.resids.dropna()       *)
(* .sort_index(), the three diagnostics, rows.append; the ValueError of   *)
(* pearsonr is not caught and ends the script                             *)
D_Diagnose ==
    /\ Running("diagnostics", "dep")
    /\ LET e == SortByKey(DropNa(panel, {"resid"}))
           w == Wooldridge(e)
           cd == PesaranCD(e)
           het == GroupwiseHet(e)
       IN  IF w.raised
           THEN /\ cur' = [op |-> "diagnose", e |-> e, wool |-> w,
                           shape |-> DropAllMissing(unstack(e)),
                           het |-> het, raised |-> TRUE]
                /\ results' = results
                /\ pc' = At("diagnostics", "aborted", 0, 0)
           ELSE /\ cur' = [op |-> "diagnose", e |-> e, wool |-> w,
                           shape |-> DropAllMissing(unstack(e)),
                           het |-> het, raised |-> FALSE]
                /\ results' = Append(results, DiagnosticsRow(panel, w, cd, het))
                /\ pc' = At("diagnostics", "save", 0, 0)
    /\ UNCHANGED <<panel, out, written>>

(* pd.DataFrame(rows).to_csv(OUT_PATH, index=False) *)
D_Save ==
    /\ Running("diagnostics", "save")
    /\ written' = results
    /\ pc' = At("diagnostics", "done", 0, 0)
    /\ UNCHANGED <<panel, out, results, cur>>

InitD ==
    /\ panel \in ResidSeries(MaxResid)
    /\ out = Idle
    /\ pc = At("diagnostics", "dep", 0, 0)
    /\ results = <<>>
    /\ written = <<>>
    /\ cur = Idle

NextD ==
    \/ D_Diagnose
    \/ D_Save

SpecD == InitD /\ [][NextD]_vars

(* ------------------ properties of the model diagnostics ---------------- *)
(* the residuals that are not missing, straight from the fit's output *)
Present == {i \in 1..Len(panel) : panel[i].resid # NaN}

TimesLeft == {panel[i].year : i \in Present}
EntitiesLeft == {panel[i].firm : i \in Present}

Diagnosed == pc.script = "diagnostics" /\ cur.op = "diagnose"

DiagRowOut == results[Len(results)]

WithVariance ==
    {f \in EntitiesLeft : Cardinality({i \in Present : panel[i].firm = f}) >= 2}

(* C23: the groupwise-heteroskedasticity statistic is a number only when  *)
(* at least 3 entities have a defined residual variance; an entity with a *)
(* single residual does not count towards the 3.  The script tests        *)
(* gv.size, which counts the entities whose variance is NaN as well.      *)
C23_ThreeDefinedVariances ==
    (Diagnosed /\ ~cur.raised /\ DiagRowOut.Wald_stat.kind = "num") =>
        Cardinality(WithVariance) >= 3

SubsetFrame(who, df, label) ==
    CASE who = "model_a" ->
            (CASE label = "Full Period" -> df
               [] label = "Hotels Only" -> HotelsA(df)
               [] OTHER -> SubsetA(df, label))
      [] who = "model_b" -> SubsetB(df, label)
      [] who = "controls" ->
            BlockC(df, CHOOSE n \in 1..Len(BLOCKS_C) : BLOCKS_C[n] = label)
      [] who = "vif" -> IF label = "hotels" THEN HotelsVIF(df) ELSE df

LagFrame(who, block, lag) ==
    CASE who = "model_a" -> LagModelA(block, lag)
      [] who = "model_b" -> LagModelB(block, lag)
      [] who = "controls" -> LagControls(block, lag)
      [] who = "vif" -> LagVIF(block, lag)

(* defect: the lag built on the whole panel, the filter applied after it *)
LagBeforeFilter(who, df, label, lag) ==
    SubsetFrame(who, LagFrame(who, df, lag), label)

(* the lagged frame of a subset fit: the filter, then the lag inside it *)
LagInSubset(who, df, label, lag) ==
    LagFrame(who, SubsetFrame(who, df, label), lag)

(* defect: only the first outcome is required to be present *)
DesignRowsFirstOutcome(df_lag) ==
    DropNa(df_lag, {Y_LIST[1]} \cup REGRESSORS_C)

(* df_lag[cols].dropna() with cols = [*Y_LIST, ESG_lag, *CONTROLS] *)
DesignRows(df_lag) ==
    DropNa(df_lag, {Y_LIST[1], Y_LIST[2]} \cup REGRESSORS_C)

(* --------------------------- input panels ------------------------------ *)
WindowYears == {2019, 2020, 2021, 2022}

(* the years of a set in ascending order *)
YearSeq(S) ==
    [n \in 1..Cardinality(S) |->
        CHOOSE y \in S : Cardinality({z \in S : z < y}) = n - 1]

(* a score that differs in every row, so that a lagged value shows the    *)
(* row it was taken from                                                  *)
ScoreOf(firm, year) == 100 * firm + (year - 2000)

(* nf firms: firm 1 over the years ys1, the others over ys; odd firms are *)
(* hotels; firm 1 has no NIAT in the year gap                             *)
WindowPanel(nf, ys1, ys, gap) ==
    LET n1 == Cardinality(ys1)
        n == Cardinality(ys)
    IN  [i \in 1..(n1 + (nf - 1) * n) |->
            LET firm == IF i <= n1 THEN 1 ELSE 2 + ((i - n1 - 1) \div n)
                year == IF i <= n1 THEN YearSeq(ys1)[i]
                        ELSE YearSeq(ys)[((i - n1 - 1) % n) + 1]
            IN  MkRow(i, firm, year,
                      IF firm % 2 = 1 THEN HotelsLabel ELSE FoodLabel,
                      ScoreOf(firm, year), 1, 1, 1,
                      IF firm = 1 /\ year = gap THEN NaN ELSE 1)]

(* one or two firms over every choice of years, and panels with enough   *)
(* firms for controls_summary's row threshold inside the COVID window    *)
WindowPanels(many) ==
    {WindowPanel(nf, ys1, ys, gap) :
        nf \in {1, 2},
        ys1 \in (SUBSET WindowYears) \ {{}},
        ys \in {WindowYears, {2020, 2021}, {2019, 2022}},
        gap \in {NaN, 2021}}
    \cup
    {WindowPanel(many, ys1, ys, gap) :
        ys1 \in {WindowYears, {2020, 2021}},
        ys \in {WindowYears, {2020, 2021}, {2019, 2020, 2021}},
        gap \in {NaN, 2021}}

(* ------------------------ one call on one subset ----------------------- *)
Call(op, who, label, outcome, lag, lagged, data, estimated, rows) ==
    [op |-> op, who |-> who, label |-> label, outcome |-> outcome,
     lag |-> lag, sub |-> SubsetFrame(who, panel, label), lagged |-> lagged,
     data |-> data, estimated |-> estimated, rows |-> rows]

Calling == pc.script = "subset_fit" /\ pc.at = "call"

Returned == At("subset_fit", "returned", 0, 0)

(* results.append(fit_one(sub, y, L, label)) of Model A and Model B *)
W_FitOne ==
    /\ Calling
    /\ \E who \in {"model_a", "model_b"}, label \in SeqToSet(SUBSETS_B),
          outcome \in SeqToSet(OUTCOMES), lag \in LAGS :
          LET lagged == LagInSubset(who, panel, label, lag)
              regressors == IF who = "model_a" THEN REGRESSORS_A
                            ELSE REGRESSORS_B
              data == drop_singletons(DropNa(lagged, {outcome} \cup regressors))
          IN  IF NoEstimablePanel(data)
              THEN out' = Call("fit_one", who, label, outcome, lag, lagged,
                               data, FALSE,
                               <<ResultRow(label, outcome, lag, 0,
                                           "no_estimable_panel")>>)
              ELSE \E r \in PanelOLSOutcomes(data, Cardinality(regressors), FALSE) :
                    out' = Call("fit_one", who, label, outcome, lag, lagged,
                                data, TRUE,
                                IF r = "ok"
                                THEN <<ResultRow(label, outcome, lag,
                                                 Len(data), "ok")>>
                                ELSE <<>>)
    /\ pc' = Returned
    /\ UNCHANGED <<panel, results, written, cur>>

(* one turn of the lag loop of run_block(sub, label) in controls_summary: *)
(* the two skipped rows, or try_fit for each of the two outcomes          *)
W_RunBlock ==
    /\ Calling
    /\ \E n \in 1..Len(BLOCKS_C), lag \in CONTROLS_LAGS :
          LET label == BLOCKS_C[n]
              lagged == LagInSubset("controls", panel, label, lag)
              df_lag == DesignRows(lagged)
              Row(y, r) ==
                  IF r = "ok" THEN ControlsRow(label, y, lag, df_lag, 1, "")
                  ELSE ControlsRow(label, y, lag, df_lag, NaN, SkipNote(r))
          IN  IF ~valid_panel(df_lag)
              THEN out' = Call("run_block", "controls", label, "", lag, lagged,
                               df_lag, FALSE,
                               [k \in 1..Len(Y_LIST) |->
                                   ControlsRow(label, Y_LIST[k], lag, df_lag,
                                       NaN, "skipped: insufficient panel")])
              ELSE \E r1, r2 \in PanelOLSOutcomes(df_lag,
                                     Cardinality(REGRESSORS_C), FALSE) :
                    out' = Call("run_block", "controls", label, "", lag,
                                lagged, df_lag, TRUE,
                                <<Row(Y_LIST[1], r1), Row(Y_LIST[2], r2)>>)
    /\ pc' = Returned
    /\ UNCHANGED <<panel, results, written, cur>>

(* one turn of the VIF loop: the lag on a copy of dsub, dropna, and the   *)
(* block computed when rows are left                                      *)
W_VifLag ==
    /\ Calling
    /\ \E sample \in {"full", "hotels"}, lag \in LAGS :
          LET lagged == LagInSubset("vif", panel, sample, lag)
              tmp == DropNa(lagged, REGRESSORS_C)
          IN  out' = Call("vif_lag", "vif", sample, "", lag, lagged, tmp,
                          Len(tmp) > 0, <<>>)
    /\ pc' = Returned
    /\ UNCHANGED <<panel, results, written, cur>>

InitW ==
    /\ panel \in WindowPanels(MIN_PANEL_ROWS + 1)
    /\ out = Idle
    /\ pc = At("subset_fit", "call", 0, 0)
    /\ results = <<>>
    /\ written = <<>>
    /\ cur = Idle

NextW ==
    \/ W_FitOne
    \/ W_RunBlock
    \/ W_VifLag

SpecW == InitW /\ [][NextW]_vars

(* -------------------- properties of the subset fits -------------------- *)
Called == pc.script = "subset_fit" /\ out.op \in {"fit_one", "run_block", "vif_lag"}

CovidLabels == {SUBSETS_B[2], BLOCKS_C[3]}
NonCovidLabels == {SUBSETS_B[3], BLOCKS_C[4]}

(* C25: on a panel with unique integer (firm, year) pairs no fit on the   *)
(* COVID window with lag >= 1 is estimated: Model A and Model B return    *)
(* the row "no_estimable_panel" with N = 0, controls_summary the two rows *)
(* "skipped: insufficient panel".                                         *)
C25_CovidLagNeverEstimated ==
    (/\ Called
     /\ out.op \in {"fit_one", "run_block"}
     /\ out.label \in CovidLabels
     /\ out.lag >= 1)
        => /\ ~out.estimated
           /\ out.op = "fit_one" =>
                 out.rows = <<ResultRow(out.label, out.outcome, out.lag, 0,
                                        "no_estimable_panel")>>
           /\ out.op = "run_block" =>
                 /\ Len(out.rows) = Len(Y_LIST)
                 /\ \A k \in 1..Len(out.rows) :
                       out.rows[k].status = "skipped: insufficient panel"

(* C25 witness: controls_summary on the COVID window at lag 1 with more   *)
(* rows and entities left than the thresholds ask for, and still skipped  *)
C25_Witness ==
    /\ Called
    /\ out.op = "run_block"
    /\ out.label \in CovidLabels
    /\ out.lag = 1
    /\ Len(out.data) > MIN_PANEL_ROWS
    /\ Cardinality(Entities(out.data)) >= 2
    /\ ~out.estimated

(* C26: in a subset fit the lagged value of a row is the value lag rows   *)
(* earlier among the rows of the same entity inside the subset, missing   *)
(* when the subset has fewer earlier rows; so in the Non-COVID subset the *)
(* lag-1 value of a 2022 row is the entity's 2019 value when it has one.  *)
C26_LagInsideSubset ==
    Called =>
        /\ Len(out.lagged) = Len(out.sub)
        /\ \A i \in 1..Len(out.sub), t \in LagTargets(out.who) :
              LET upto == {j \in 1..i : out.sub[j].firm = out.sub[i].firm}
              IN  IF Cardinality(upto) <= out.lag
                  THEN out.lagged[i][t[1]] = NaN
                  ELSE \E j \in upto :
                          /\ Cardinality({k \in upto : k > j}) = out.lag
                          /\ out.lagged[i][t[1]] = out.sub[j][t[2]]
        /\ (out.label \in NonCovidLabels /\ out.lag = 1) =>
              \A i \in 1..Len(out.lagged), t \in LagTargets(out.who) :
                  (/\ out.lagged[i].year = NONCOVID_FROM
                   /\ \E j \in 1..Len(panel) :
                         /\ panel[j].firm = out.lagged[i].firm
                         /\ panel[j].year = PRE_COVID_TO)
                      => out.lagged[i][t[1]] =
                            ScoreOf(out.lagged[i].firm, PRE_COVID_TO)

(* C26 witness: a Non-COVID fit at lag 1 on a firm with rows for 2019,    *)
(* 2021 and 2022: the 2022 row carries the 2019 score                     *)
C26_Witness ==
    /\ Called
    /\ out.label \in NonCovidLabels
    /\ out.lag = 1
    /\ \E i \in 1..Len(out.lagged), t \in LagTargets(out.who) :
          /\ out.lagged[i].year = NONCOVID_FROM
          /\ \E j \in 1..Len(panel) :
                panel[j].firm = out.lagged[i].firm /\ panel[j].year = COVID_TO
          /\ out.lagged[i][t[1]] = ScoreOf(out.lagged[i].firm, PRE_COVID_TO)

(* C27: run_block estimates both outcomes on the same rows, those with    *)
(* ROA, NIAT, the lagged score, Employees and Debt all present, and       *)
(* reports the same entities and obs_used for the two outcomes.           *)
C27_BothOutcomesSameRows ==
    (Called /\ out.op = "run_block") =>
        /\ Rids(out.data) =
              {out.lagged[i].rid :
                 i \in {n \in 1..Len(out.lagged) :
                          \A c \in {"roa", "niat", "esg_lag", "emp", "debt"} :
                              out.lagged[n][c] # NaN}}
        /\ Len(out.rows) = 2
        /\ out.rows[1].Outcome = "roa" /\ out.rows[2].Outcome = "niat"
        /\ \A k \in 1..2 :
              /\ out.rows[k].N = Len(out.data)
              /\ out.rows[k].entities = Cardinality(Entities(out.data))

(* C27 witness: both outcomes estimated while a row that lacks only NIAT  *)
(* is left out of the design                                              *)
C27_Witness ==
    /\ Called
    /\ out.op = "run_block"
    /\ out.estimated
    /\ out.rows[1].status = "" /\ out.rows[2].status = ""
    /\ \E i \in 1..Len(out.lagged) :
          /\ out.lagged[i].niat = NaN
          /\ \A c \in {"roa", "esg_lag", "emp", "debt"} : out.lagged[i][c] # NaN
          /\ out.lagged[i].rid \notin Rids(out.data)

(* ============================ the orchestrator ========================= *)
(* sample_and_appendices.py runs five scripts in one interpreter and then *)
(* looks for the files it expects in ROOT/outputs.  A file is a directory *)
(* and a name; where a script writes depends on how it builds its path:   *)
(* from __file__ (ROOT), from the working directory, or from the home     *)
(* directory.  The environment fixes the working directory, whether       *)
(* ~/thesis_models is ROOT, and whether the data has a Sector column; a   *)
(* script either raises before writing or runs to its end.                *)
SCRIPTS == <<"sample_descriptives.py", "controls_summary.py",
             "vif_diagnostics.py", "model_diagnostics.py",
             "hausman_appendix_A1.py">>

EXPECTED == {"sample_overview.csv", "sector_breakdown.csv", "desc_full.csv",
             "desc_covid.csv", "desc_noncovid.csv", "controls_full.csv",
             "controls_covid.csv", "controls_noncovid.csv",
             "controls_hotels.csv", "vif_summary.csv",
             "model_diagnostics.csv", "Appendix_A1_Hausman.xlsx"}

File(at, sub, name) == [at |-> at, sub |-> sub, name |-> name]

(* OUT = ROOT / "outputs" *)
InOutputs(name) == File("root", "outputs", name)

Environments ==
    [cwd : {"root", "code", "elsewhere"}, home : {"root", "elsewhere"},
     sector : BOOLEAN]

(* runpy.run_path of the s-th script: an exception is not caught by the   *)
(* loop and ends the orchestrator; otherwise the script's files exist     *)
RunScript(s, files) ==
    /\ pc.script = "orchestrator" /\ pc.at = "run" /\ pc.s = s
    /\ \E raised \in BOOLEAN :
          IF raised
          THEN /\ written' = written
               /\ pc' = At("orchestrator", "raised", s, 0)
          ELSE /\ written' = written \cup files
               /\ pc' = IF s < Len(SCRIPTS)
                        THEN At("orchestrator", "run", s + 1, 0)
                        ELSE At("orchestrator", "check", 0, 0)
    /\ UNCHANGED <<panel, out, results, cur>>

(* OUT = Path("outputs"), relative to the working directory *)
O_SampleDescriptives ==
    RunScript(1,
        {File(panel.cwd, "outputs", name) :
            name \in {"sample_overview.csv", "desc_full.csv", "desc_hotels.csv",
                      "desc_covid.csv", "desc_noncovid.csv"}
                     \cup (IF panel.sector THEN {"sector_breakdown.csv"} ELSE {})})

(* OUT = ROOT / "outputs" *)
O_ControlsSummary ==
    RunScript(2, {InOutputs(FILES_C[n]) : n \in 1..Len(FILES_C)})

(* OUT = ROOT / "outputs" / "vif_summary.csv" *)
O_VifDiagnostics ==
    RunScript(3, {InOutputs("vif_summary.csv")})

(* OUT_PATH = expanduser("~/thesis_models/outputs/model_diagnostics.csv") *)
O_ModelDiagnostics ==
    RunScript(4, {File(IF panel.home = "root" THEN "root" ELSE "home",
                       "outputs", "model_diagnostics.csv")})

(* out.to_csv("appendix_A1_hausman.csv"): a CSV in the working directory *)
O_HausmanAppendix ==
    RunScript(5, {File(panel.cwd, "", "appendix_A1_hausman.csv")})

(* missing = [f for f in expected if not (OUT / f).exists()]; SystemExit  *)
(* when a file is missing, "Done." otherwise                              *)
O_CheckExpected ==
    /\ pc.script = "orchestrator" /\ pc.at = "check"
    /\ LET missing == {f \in EXPECTED : InOutputs(f) \notin written}
       IN  /\ out' = [op |-> "check", missing |-> missing,
                      message |-> IF missing # {}
                                  THEN "Some expected files are missing"
                                  ELSE "Done."]
           /\ pc' = IF missing # {} THEN At("orchestrator", "SystemExit", 0, 0)
                    ELSE At("orchestrator", "done", 0, 0)
    /\ UNCHANGED <<panel, results, written, cur>>

(* OUT.mkdir(parents=True, exist_ok=True) on an outputs directory that    *)
(* holds no file yet                                                      *)
InitO ==
    /\ panel \in Environments
    /\ out = Idle
    /\ pc = At("orchestrator", "run", 1, 0)
    /\ results = <<>>
    /\ written = {}
    /\ cur = Idle

NextO ==
    \/ O_SampleDescriptives
    \/ O_ControlsSummary
    \/ O_VifDiagnostics
    \/ O_ModelDiagnostics
    \/ O_HausmanAppendix
    \/ O_CheckExpected

SpecO == InitO /\ [][NextO]_vars

(* C28: from an empty outputs directory, once the five scripts have run   *)
(* in order without raising, every expected file, Appendix_A1_Hausman     *)
(* .xlsx included, exists in the outputs directory, and the run ends with *)
(* "Done." and not with the missing-files exit.  No script writes that    *)
(* file: the Hausman script writes appendix_A1_hausman.csv into the       *)
(* working directory.                                                     *)
C28_RunEndsWithDone ==
    /\ (pc.script = "orchestrator" /\ pc.at = "check")
          => \A f \in EXPECTED : InOutputs(f) \in written
    /\ (pc.script = "orchestrator" /\ pc.at \in {"done", "SystemExit"})
          => (out.missing = {} /\ out.message = "Done.")

====
